---------------------------- MODULE Spec2Model ----------------------------
(***************************************************************************)
(* A model of the financial-health core of the FinHealth backend:          *)
(*   services/health_score_engine.py   HealthScoreEngine                   *)
(*   services/health_score.py          HealthScoreCalculator               *)
(*   services/financial_calculator.py  FinancialCalculator                 *)
(*   services/forecasting_engine.py    ForecastingEngine                   *)
(*                                                                         *)
(* Numbers.  The program computes in Python floats; the model computes in  *)
(* exact decimal fixed point, one unit per quantity:                       *)
(*   ratios and percentages (current_ratio .. asset_turnover)  1/100       *)
(*   days (cash_runway_days, working_capital_cycle)            1/10 day    *)
(*   currency amounts (revenue, cash, working_capital, ...)    1000        *)
(*   score of one metric (cr_score, gm_score, ...)             1/1000 pt   *)
(*   score of one category (liquidity_score, ...)              1/10^5 pt   *)
(*   overall score before rounding                             1/10^7 pt   *)
(*   a score as reported, after round(x, 1)                    1/10 pt     *)
(* Every constant of a scoring curve is exact in these units.  A quotient  *)
(* of two amounts is cut to the unit of its result (floor).                *)
(***************************************************************************)
EXTENDS Integers, Sequences, FiniteSets, Bags, TLC

VARIABLES
    raw,        \* the raw financial data of the call
    industry,   \* HealthScoreCalculator.industry, company.industry
    pc,         \* position inside calculate_comprehensive_score
    metrics,    \* the dict _extract_metrics returned
    result,     \* the dict calculate_health_score returned
    ai_summary, \* the tier of the text _generate_summary returned, "" before
    error,      \* the exception that left the call, "" when none
    gscore,     \* the score handed to _calculate_grade / _calculate_risk_level
    grade,      \* what _calculate_grade returned
    risk,       \* what _calculate_risk_level returned
    cname,      \* the metric whose scoring curve is applied
    clo,        \* a value of that metric
    chi,        \* a larger value of that metric
    cout,       \* the curve's scores of clo and chi, <<>> before it is applied
    now,        \* the clock datetime.now() reads, in days
    runs,       \* the assessments computed so far, in order
    fin,        \* the raw data handed to FinancialCalculator.calculate_all_metrics
    fout,       \* the dict calculate_all_metrics returned, <<>> before the call
    bench,      \* the dict compare_to_industry returned, <<>> before the call
    factors,    \* what _identify_risk_factors returned, <<>> before the call
    health_scores,   \* the rows of table health_scores, oldest first
    financial_data,  \* the rows of table financial_data, a bag
    request,    \* the last request made, <<>> before the first
    response    \* what it returned

scoreVars  == <<raw, industry, pc, metrics, result, ai_summary, error>>
gradeVars  == <<gscore, grade, risk>>
curveVars  == <<cname, clo, chi, cout>>
assessVars == <<now, runs>>
calcVars   == <<fin, fout>>
analysisVars == <<bench, factors>>
cacheVars  == <<health_scores, financial_data, request, response>>

vars == <<scoreVars, gradeVars, curveVars, assessVars, calcVars, analysisVars,
          cacheVars>>

---------------------------------------------------------------------------
(* Helpers *)

Max(a, b) == IF a >= b THEN a ELSE b
Min(a, b) == IF a <= b THEN a ELSE b

\* dict.get(k, d) on a dict modelled as a function
Get(d, k, dflt) == IF k \in DOMAIN d THEN d[k] ELSE dflt

\* Python's round(): the multiple of unit nearest to n, ties to the even one.
\* (On a float the tie is decided by the binary value actually stored; the
\* model decides it on the exact decimal value.)
RoundHalfEven(n, unit) ==
    LET q == n \div unit
        r == n % unit
    IN  IF 2 * r < unit THEN q
        ELSE IF 2 * r > unit THEN q + 1
        ELSE IF q % 2 = 0 THEN q ELSE q + 1

---------------------------------------------------------------------------
(* HealthScoreEngine: weights *)

Industries == {"Manufacturing", "Retail", "Agriculture", "Services",
               "Logistics", "E-commerce"}

Categories == {"liquidity", "profitability", "solvency", "efficiency", "cash_flow"}

\* weights in hundredths: 0.20 is 20
Weights(l, p, s, e, c) ==
    [liquidity |-> l, profitability |-> p, solvency |-> s,
     efficiency |-> e, cash_flow |-> c]

INDUSTRY_WEIGHTS ==
    [i \in Industries |->
        CASE i = "Manufacturing" -> Weights(20, 25, 20, 20, 15)
          [] i = "Retail"        -> Weights(25, 20, 15, 25, 15)
          [] i = "Agriculture"   -> Weights(30, 20, 15, 15, 20)
          [] i = "Services"      -> Weights(20, 30, 15, 15, 20)
          [] i = "Logistics"     -> Weights(20, 20, 25, 20, 15)
          [] i = "E-commerce"    -> Weights(25, 20, 15, 20, 20)]

DEFAULT_WEIGHTS == Weights(20, 25, 20, 15, 20)

\* WeightsFor without the lookup: every industry gets the default set
WeightsFor_default_only(ind) == DEFAULT_WEIGHTS

\* self.INDUSTRY_WEIGHTS.get(industry, self.DEFAULT_WEIGHTS)
WeightsFor(ind) ==
    IF ind \in Industries THEN INDUSTRY_WEIGHTS[ind] ELSE DEFAULT_WEIGHTS

---------------------------------------------------------------------------
(* HealthScoreEngine: the scoring curves, one operator per sub-metric.     *)
(* Argument: the metric in its unit; result: thousandths of a point.       *)

current_ratio_score(v) ==
    IF v >= 200 THEN 100000
    ELSE IF v >= 150 THEN 80000 + (v - 150) * 400
    ELSE IF v >= 100 THEN 50000 + (v - 100) * 600
    ELSE IF v >= 50 THEN 20000 + (v - 50) * 600
    ELSE v * 400

quick_ratio_score(v) ==
    IF v >= 150 THEN 100000
    ELSE IF v >= 100 THEN 70000 + (v - 100) * 600
    ELSE IF v >= 50 THEN 30000 + (v - 50) * 800
    ELSE v * 600

cash_ratio_score(v) ==
    IF v >= 100 THEN 100000
    ELSE IF v >= 50 THEN 70000 + (v - 50) * 600
    ELSE IF v >= 20 THEN 30000 + (v - 20) * 1330
    ELSE v * 1500

gross_margin_score(v) ==
    IF v >= 5000 THEN 100000
    ELSE IF v >= 3000 THEN 60000 + (v - 3000) * 20
    ELSE IF v >= 1500 THEN 30000 + (v - 1500) * 20
    ELSE IF v > 0 THEN v * 20
    ELSE 0

net_margin_score(v) ==
    IF v >= 2000 THEN 100000
    ELSE IF v >= 1000 THEN 60000 + (v - 1000) * 40
    ELSE IF v >= 500 THEN 30000 + (v - 500) * 60
    ELSE IF v > 0 THEN v * 60
    ELSE 0

roe_score(v) ==
    IF v >= 2500 THEN 100000
    ELSE IF v >= 1500 THEN 60000 + (v - 1500) * 40
    ELSE IF v >= 500 THEN 20000 + (v - 500) * 40
    ELSE IF v > 0 THEN v * 40
    ELSE 0

debt_to_equity_score(v) ==
    IF v <= 50 THEN 100000
    ELSE IF v <= 100 THEN 70000 + (100 - v) * 600
    ELSE IF v <= 200 THEN 30000 + (200 - v) * 400
    ELSE IF v <= 300 THEN (300 - v) * 300
    ELSE 0

debt_ratio_score(v) ==
    IF v <= 30 THEN 100000
    ELSE IF v <= 50 THEN 70000 + (50 - v) * 1500
    ELSE IF v <= 70 THEN 30000 + (70 - v) * 2000
    ELSE Max(0, (100 - v) * 1000)

interest_coverage_score(v) ==
    IF v >= 500 THEN 100000
    ELSE IF v >= 300 THEN 70000 + (v - 300) * 150
    ELSE IF v >= 150 THEN 30000 + (v - 150) * 270
    ELSE IF v > 100 THEN (v - 100) * 600
    ELSE 0

inventory_turnover_score(v) ==
    IF v >= 1000 THEN 100000
    ELSE IF v >= 500 THEN 60000 + (v - 500) * 80
    ELSE IF v >= 200 THEN 20000 + (v - 200) * 133
    ELSE IF v > 0 THEN v * 100
    ELSE 50000

receivables_turnover_score(v) ==
    IF v >= 1200 THEN 100000
    ELSE IF v >= 800 THEN 70000 + (v - 800) * 75
    ELSE IF v >= 400 THEN 30000 + (v - 400) * 100
    ELSE IF v > 0 THEN v * 75
    ELSE 50000

asset_turnover_score(v) ==
    IF v >= 200 THEN 100000
    ELSE IF v >= 100 THEN 50000 + (v - 100) * 500
    ELSE IF v >= 50 THEN 20000 + (v - 50) * 600
    ELSE IF v > 0 THEN v * 400
    ELSE 0

\* v in tenths of a day
cash_runway_score(v) ==
    IF v >= 3650 THEN 100000
    ELSE IF v >= 1800 THEN 70000 + (v - 1800) * 16
    ELSE IF v >= 900 THEN 40000 + (v - 900) * 33
    ELSE IF v >= 300 THEN 10000 + (v - 300) * 50
    ELSE v * 33

\* v in thousands: (working_capital / 10000) * 5 points is v * 500 thousandths
working_capital_score(v) ==
    IF v > 0 THEN Min(100000, 50000 + v * 500)
    ELSE Max(0, 50000 + v * 500)

\* v in tenths of a day
working_capital_cycle_score(v) ==
    IF v <= 300 THEN 100000
    ELSE IF v <= 600 THEN 70000 + (600 - v) * 100
    ELSE IF v <= 900 THEN 40000 + (900 - v) * 100
    ELSE IF v <= 1200 THEN 20000 + (1200 - v) * 67
    ELSE Max(0, 20000 - (v - 1200) * 20)

MetricNames ==
    {"current_ratio", "quick_ratio", "cash_ratio",
     "gross_margin", "net_margin", "roe",
     "debt_to_equity", "debt_ratio", "interest_coverage",
     "inventory_turnover", "receivables_turnover", "asset_turnover",
     "cash_runway_days", "working_capital", "working_capital_cycle"}

\* the curve of metric k applied to v
SubScore(k, v) ==
    CASE k = "current_ratio"         -> current_ratio_score(v)
      [] k = "quick_ratio"           -> quick_ratio_score(v)
      [] k = "cash_ratio"            -> cash_ratio_score(v)
      [] k = "gross_margin"          -> gross_margin_score(v)
      [] k = "net_margin"            -> net_margin_score(v)
      [] k = "roe"                   -> roe_score(v)
      [] k = "debt_to_equity"        -> debt_to_equity_score(v)
      [] k = "debt_ratio"            -> debt_ratio_score(v)
      [] k = "interest_coverage"     -> interest_coverage_score(v)
      [] k = "inventory_turnover"    -> inventory_turnover_score(v)
      [] k = "receivables_turnover"  -> receivables_turnover_score(v)
      [] k = "asset_turnover"        -> asset_turnover_score(v)
      [] k = "cash_runway_days"      -> cash_runway_score(v)
      [] k = "working_capital"       -> working_capital_score(v)
      [] k = "working_capital_cycle" -> working_capital_cycle_score(v)

\* metrics.get(k, 0) fed to its curve
Sub(m, k) == SubScore(k, Get(m, k, 0))

(* Category scores, in 1/10^5 point: the sub-metric weights in hundredths. *)

score_liquidity(m) ==
    Sub(m, "current_ratio") * 40 + Sub(m, "quick_ratio") * 35
        + Sub(m, "cash_ratio") * 25

score_profitability(m) ==
    Sub(m, "gross_margin") * 30 + Sub(m, "net_margin") * 40 + Sub(m, "roe") * 30

score_solvency(m) ==
    Sub(m, "debt_to_equity") * 35 + Sub(m, "debt_ratio") * 35
        + Sub(m, "interest_coverage") * 30

score_efficiency(m) ==
    Sub(m, "inventory_turnover") * 35 + Sub(m, "receivables_turnover") * 35
        + Sub(m, "asset_turnover") * 30

score_cash_flow(m) ==
    Sub(m, "cash_runway_days") * 40 + Sub(m, "working_capital") * 30
        + Sub(m, "working_capital_cycle") * 30

---------------------------------------------------------------------------
(* HealthScoreEngine: grade and risk level.  The score is the overall     *)
(* score before rounding, in 1/10^7 point.                                 *)

\* n points in the unit of the overall score
Pt(n) == n * 10000000

\* calculate_grade with the first comparison strict: 90.0 falls to "A"
calculate_grade_strict(s) ==
    IF s > Pt(90) THEN "A+"
    ELSE IF s >= Pt(85) THEN "A"
    ELSE IF s >= Pt(80) THEN "A-"
    ELSE IF s >= Pt(75) THEN "B+"
    ELSE IF s >= Pt(70) THEN "B"
    ELSE IF s >= Pt(65) THEN "B-"
    ELSE IF s >= Pt(60) THEN "C+"
    ELSE IF s >= Pt(55) THEN "C"
    ELSE IF s >= Pt(50) THEN "C-"
    ELSE IF s >= Pt(40) THEN "D"
    ELSE "F"

calculate_grade(s) ==
    IF s >= Pt(90) THEN "A+"
    ELSE IF s >= Pt(85) THEN "A"
    ELSE IF s >= Pt(80) THEN "A-"
    ELSE IF s >= Pt(75) THEN "B+"
    ELSE IF s >= Pt(70) THEN "B"
    ELSE IF s >= Pt(65) THEN "B-"
    ELSE IF s >= Pt(60) THEN "C+"
    ELSE IF s >= Pt(55) THEN "C"
    ELSE IF s >= Pt(50) THEN "C-"
    ELSE IF s >= Pt(40) THEN "D"
    ELSE "F"

calculate_risk_level(s) ==
    IF s >= Pt(75) THEN "Low"
    ELSE IF s >= Pt(55) THEN "Medium"
    ELSE IF s >= Pt(35) THEN "High"
    ELSE "Critical"

---------------------------------------------------------------------------
(* HealthScoreEngine.calculate_health_score *)

\* round(category_score, 1) and round(overall_score, 1), in tenths of a point
RoundCategory(c) == RoundHalfEven(c, 10000)
RoundOverall(o) == RoundHalfEven(o, 1000000)

OverallScore(m, w) ==
    score_liquidity(m) * w.liquidity
        + score_profitability(m) * w.profitability
        + score_solvency(m) * w.solvency
        + score_efficiency(m) * w.efficiency
        + score_cash_flow(m) * w.cash_flow

calculate_health_score(m, ind) ==
    LET weights == WeightsFor(ind)
        overall_score == OverallScore(m, weights)
    IN  [overall_score       |-> RoundOverall(overall_score),
         grade               |-> calculate_grade(overall_score),
         liquidity_score     |-> RoundCategory(score_liquidity(m)),
         profitability_score |-> RoundCategory(score_profitability(m)),
         solvency_score      |-> RoundCategory(score_solvency(m)),
         efficiency_score    |-> RoundCategory(score_efficiency(m)),
         cash_flow_score     |-> RoundCategory(score_cash_flow(m)),
         risk_level          |-> calculate_risk_level(overall_score),
         weights_used        |-> weights]

\* _generate_summary(score_result): the tier of the text, chosen on the
\* overall_score of the result (tenths of a point); the text then names the
\* score to the whole point and the grade
generate_summary(score_result) ==
    IF score_result.overall_score >= 750 THEN "strong"
    ELSE IF score_result.overall_score >= 550 THEN "moderate"
    ELSE IF score_result.overall_score >= 350 THEN "challenges"
    ELSE "critical"

---------------------------------------------------------------------------
(* Raw financial data.  A JSON value is a record [t, v]: t its type and v  *)
(* its number (0 when it has none).  "numstr" is a string float() parses,  *)
(* "str" one it does not, "nested" a list or an object.                    *)

Num(n)    == [t |-> "num", v |-> n]
NumStr(n) == [t |-> "numstr", v |-> n]
BadStr    == [t |-> "str", v |-> 0]
Null      == [t |-> "null", v |-> 0]
Nested    == [t |-> "nested", v |-> 0]

\* float(x): the exception it raises, "" when it returns x.v
FloatError(x) ==
    CASE x.t \in {"num", "numstr"} -> ""
      [] x.t = "str"               -> "ValueError"
      [] OTHER                     -> "TypeError"

\* x / 12: Python divides numbers only
DivideError(x) == IF x.t = "num" THEN "" ELSE "TypeError"

\* the first exception raised by a sequence of statements, "" when none
RECURSIVE FirstError(_)
FirstError(errs) ==
    IF errs = <<>> THEN ""
    ELSE IF Head(errs) # "" THEN Head(errs)
    ELSE FirstError(Tail(errs))

EmptyDict == [k \in {} |-> Num(0)]

---------------------------------------------------------------------------
(* HealthScoreCalculator._extract_metrics *)

\* the second argument of data.get(metric, default), in the metric's unit
DefaultMetrics ==
    [k \in MetricNames |->
        CASE k = "current_ratio"         -> 150
          [] k = "quick_ratio"           -> 100
          [] k = "cash_ratio"            -> 50
          [] k = "gross_margin"          -> 3000
          [] k = "net_margin"            -> 1000
          [] k = "roe"                   -> 1200
          [] k = "debt_to_equity"        -> 80
          [] k = "debt_ratio"            -> 40
          [] k = "interest_coverage"     -> 300
          [] k = "inventory_turnover"    -> 600
          [] k = "receivables_turnover"  -> 800
          [] k = "asset_turnover"        -> 120
          [] k = "cash_runway_days"      -> 900
          [] k = "working_capital"       -> 50
          [] k = "working_capital_cycle" -> 450]

\* the order of the fifteen float(data.get(...)) statements
MetricOrder ==
    <<"current_ratio", "quick_ratio", "cash_ratio", "gross_margin",
      "net_margin", "roe", "debt_to_equity", "debt_ratio",
      "interest_coverage", "inventory_turnover", "receivables_turnover",
      "asset_turnover", "cash_runway_days", "working_capital",
      "working_capital_cycle">>

\* data.get(k1, data.get(k2, dflt))
Get2(d, k1, k2, dflt) == Get(d, k1, Get(d, k2, dflt))

\* DirectMetrics with 0 as the default of every metric
DirectMetrics_zero_default(d) ==
    [k \in MetricNames |-> Get(d, k, Num(0)).v]

\* lines 42-56: the metrics given directly, each defaulted when absent
DirectMetrics(d) ==
    [k \in MetricNames |-> Get(d, k, Num(DefaultMetrics[k])).v]

DirectErrors(d) ==
    [i \in 1..Len(MetricOrder) |->
        FloatError(Get(d, MetricOrder[i], Num(DefaultMetrics[MetricOrder[i]])))]

\* lines 59-66: gross_margin and net_margin from revenue
RevenueBlock(d, m) ==
    IF ~("revenue" \in DOMAIN d \/ "total_revenue" \in DOMAIN d)
    THEN [err |-> "", m |-> m]
    ELSE
        LET revenueV    == Get2(d, "revenue", "total_revenue", Num(0))
            revenue     == revenueV.v
            cogsV       == Get2(d, "cost_of_goods_sold", "cogs", Num((revenue * 6) \div 10))
            cogs        == cogsV.v
            net_incomeV == Get2(d, "net_income", "profit", Num(revenue \div 10))
            net_income  == net_incomeV.v
            err == FirstError(<<FloatError(revenueV), FloatError(cogsV),
                                FloatError(net_incomeV)>>)
        IN  [err |-> err,
             m   |-> IF err = "" /\ revenue > 0
                     THEN [m EXCEPT
                             !["gross_margin"] = ((revenue - cogs) * 10000) \div revenue,
                             !["net_margin"] = (net_income * 10000) \div revenue]
                     ELSE m]

\* lines 68-82: current_ratio, debt_to_equity and roe from the balance sheet
AssetsBlock(d, m) ==
    IF ~("total_assets" \in DOMAIN d \/ "assets" \in DOMAIN d)
    THEN [err |-> "", m |-> m]
    ELSE
        LET total_assetsV == Get2(d, "total_assets", "assets", Num(0))
            total_assets  == total_assetsV.v
            current_assetsV == Get(d, "current_assets", Num((total_assets * 4) \div 10))
            current_assets  == current_assetsV.v
            current_liabilitiesV ==
                Get(d, "current_liabilities", Num((current_assets * 6) \div 10))
            current_liabilities == current_liabilitiesV.v
            total_liabilitiesV ==
                Get2(d, "total_liabilities", "liabilities", Num((total_assets * 4) \div 10))
            total_liabilities == total_liabilitiesV.v
            equity == total_assets - total_liabilities
            net_incomeV == Get2(d, "net_income", "profit", Num(0))
            net_income  == net_incomeV.v
            err1 == FirstError(<<FloatError(total_assetsV), FloatError(current_assetsV),
                                 FloatError(current_liabilitiesV),
                                 FloatError(total_liabilitiesV)>>)
            err == IF err1 = "" /\ equity > 0 THEN FloatError(net_incomeV) ELSE err1
            m1 == IF current_liabilities > 0
                  THEN [m EXCEPT !["current_ratio"] =
                                    (current_assets * 100) \div current_liabilities]
                  ELSE m
            m2 == IF equity > 0
                  THEN [m1 EXCEPT
                          !["debt_to_equity"] = (total_liabilities * 100) \div equity,
                          !["roe"] = (net_income * 10000) \div equity]
                  ELSE m1
        IN  [err |-> err, m |-> IF err = "" THEN m2 ELSE m]

\* lines 84-88: cash_runway_days from cash and expenses.  cash / (x / 12 / 30)
\* days is cash * 360 / x days, cash * 3600 / x tenths of a day.
CashBlock(d, m) ==
    IF ~("cash" \in DOMAIN d \/ "cash_balance" \in DOMAIN d)
    THEN [err |-> "", m |-> m]
    ELSE
        LET cashV     == Get2(d, "cash", "cash_balance", Num(0))
            cash      == cashV.v
            expensesV == Get2(d, "monthly_expenses", "expenses", Num(0))
            expenses  == expensesV.v
            err == FirstError(<<FloatError(cashV), DivideError(expensesV)>>)
        IN  [err |-> err,
             m   |-> IF err = "" /\ expenses > 0
                     THEN [m EXCEPT !["cash_runway_days"] = (cash * 3600) \div expenses]
                     ELSE m]

\* _extract_metrics(data): [err, m], err the exception raised ("" when it
\* returns) and m the dict returned.  A value that is not a dict skips the
\* whole body and returns {}.
extract_metrics(data) ==
    IF data.kind # "dict" THEN [err |-> "", m |-> [k \in {} |-> 0]]
    ELSE
        LET d  == data.top
            e0 == FirstError(DirectErrors(d))
            b1 == RevenueBlock(d, DirectMetrics(d))
            b2 == AssetsBlock(d, b1.m)
            b3 == CashBlock(d, b2.m)
            err == FirstError(<<e0, b1.err, b2.err, b3.err>>)
        IN  [err |-> err, m |-> IF err = "" THEN b3.m ELSE [k \in {} |-> 0]]

---------------------------------------------------------------------------
(* HealthScoreCalculator._identify_risk_factors.  A risk factor is kept as *)
(* [name, severity]; its description is fixed by the name and its          *)
(* indicator is the metric's value formatted.                              *)

RiskFactor(name, severity) == [name |-> name, severity |-> severity]

\* each rule: the list of the factor it appends, empty when it does not fire
low_liquidity(m) ==
    IF Get(m, "current_ratio", 200) < 100
    THEN <<RiskFactor("Low Liquidity",
                      IF Get(m, "current_ratio", 200) < 80 THEN "high" ELSE "medium")>>
    ELSE <<>>

low_cash_runway(m) ==
    IF Get(m, "cash_runway_days", 900) < 600
    THEN <<RiskFactor("Low Cash Runway",
                      IF Get(m, "cash_runway_days", 900) < 300 THEN "critical" ELSE "high")>>
    ELSE <<>>

low_profit_margins(m) ==
    IF Get(m, "net_margin", 1000) < 500
    THEN <<RiskFactor("Low Profit Margins",
                      IF Get(m, "net_margin", 1000) < 200 THEN "high" ELSE "medium")>>
    ELSE <<>>

high_debt_levels(m) ==
    IF Get(m, "debt_to_equity", 100) > 200
    THEN <<RiskFactor("High Debt Levels",
                      IF Get(m, "debt_to_equity", 100) > 300 THEN "high" ELSE "medium")>>
    ELSE <<>>

slow_collections(m) ==
    IF Get(m, "receivables_turnover", 800) < 400
    THEN <<RiskFactor("Slow Collections", "medium")>>
    ELSE <<>>

\* the rules with the first factor found returned alone
identify_risk_factors_first_only(m) ==
    LET all == low_liquidity(m) \o low_cash_runway(m) \o low_profit_margins(m)
                   \o high_debt_levels(m) \o slow_collections(m)
    IN  IF all = <<>> THEN <<>> ELSE <<Head(all)>>

\* _identify_risk_factors(metrics, score_result): score_result is not read
identify_risk_factors(m) ==
    low_liquidity(m) \o low_cash_runway(m) \o low_profit_margins(m)
        \o high_debt_levels(m) \o slow_collections(m)

---------------------------------------------------------------------------
(* ForecastingEngine.  Raw data as the file processor stores it carries a  *)
(* summary block [has, total_revenue, total_expenses, total_profit] (has:  *)
(* the key "summary" is present; an absent total reads as 0, as            *)
(* summary.get(k, 0) does) and a financial_data block [has, cols], cols a  *)
(* function from column names to [category, total].                        *)

\* "cash" in col.lower(), for the column names of the model
IsCashColumn(col) == col \in {"Cash", "Cash Sales", "Petty cash"}

\* the sum of f[x].total over the columns x in S
RECURSIVE SumTotals(_, _)
SumTotals(S, f) ==
    IF S = {} THEN 0
    ELSE LET x == CHOOSE y \in S : TRUE
         IN  f[x].total + SumTotals(S \ {x}, f)

\* _extract_current_values(raw_data)
extract_current_values(data) ==
    LET cols == IF data.fdata.has THEN data.fdata.cols ELSE [c \in {} |-> 0]
        names == DOMAIN cols
        revenueCols == {c \in names : cols[c].category = "revenue"}
        expenseCols == {c \in names : cols[c].category = "expense"}
        cashCols == {c \in names \ (revenueCols \cup expenseCols) : IsCashColumn(c)}
        revenue == (IF data.summary.has THEN data.summary.total_revenue ELSE 0)
                       + SumTotals(revenueCols, cols)
        expenses == (IF data.summary.has THEN data.summary.total_expenses ELSE 0)
                       + SumTotals(expenseCols, cols)
    IN  [revenue  |-> revenue,
         expenses |-> expenses,
         profit   |-> revenue - expenses,
         cash     |-> SumTotals(cashCols, cols),
         \* expenses / 12 if expenses > 0 else 0, kept as twelve times itself
         monthly_burn_x12 |-> IF expenses > 0 THEN expenses ELSE 0]

\* INDUSTRY_GROWTH_RATES, average annual percent
GrowthRates(b, o, p) == [base |-> b, optimistic |-> o, pessimistic |-> p]

INDUSTRY_GROWTH_RATES ==
    [i \in Industries |->
        CASE i = "Manufacturing" -> GrowthRates(8, 15, 3)
          [] i = "Retail"        -> GrowthRates(10, 18, 4)
          [] i = "Agriculture"   -> GrowthRates(5, 12, -2)
          [] i = "Services"      -> GrowthRates(12, 22, 5)
          [] i = "Logistics"     -> GrowthRates(10, 18, 4)
          [] i = "E-commerce"    -> GrowthRates(20, 35, 8)]

\* the lookup with the rates of Retail as the fallback
GrowthRatesFor_retail_fallback(ind) ==
    IF ind \in DOMAIN INDUSTRY_GROWTH_RATES THEN INDUSTRY_GROWTH_RATES[ind]
    ELSE INDUSTRY_GROWTH_RATES["Retail"]

\* self.INDUSTRY_GROWTH_RATES.get(industry, {base 10, optimistic 18, pessimistic 5})
GrowthRatesFor(ind) ==
    IF ind \in DOMAIN INDUSTRY_GROWTH_RATES THEN INDUSTRY_GROWTH_RATES[ind]
    ELSE GrowthRates(10, 18, 5)

\* _generate_scenarios(financials, growth_rates), in the order of the rates'
\* keys; projected_revenue = revenue * (1 + growth_rate / 100) in whole
\* currency units (revenue is in thousands).  projected_profit is left out.
generate_scenarios(f, growth_rates) ==
    [i \in 1..3 |->
        LET name == <<"base", "optimistic", "pessimistic">>[i]
        IN  [scenario |-> name,
             growth_rate |-> growth_rates[name],
             projected_revenue |-> f.revenue * 10 * (100 + growth_rates[name])]]

NoDate == [has |-> FALSE, day |-> 0]

\* the projection with no case for a burn of zero: a runway of 0 months
project_cash_runway_no_guard(f, t) ==
    [status |-> "",
     current_cash |-> f.cash,
     monthly_burn_rate |-> RoundHalfEven(f.monthly_burn_x12 * 100000, 12),
     current_runway_months |->
        IF f.monthly_burn_x12 <= 0 THEN 0
        ELSE RoundHalfEven(f.cash * 120, f.monthly_burn_x12),
     scenarios |-> <<>>,
     critical_date |-> NoDate]

\* _project_cash_runway(financials), read at clock value t (a day number).
\* Months are in tenths, the burn rate in hundredths of a currency unit.
project_cash_runway(f, t) ==
    IF f.monthly_burn_x12 <= 0
    THEN [status |-> "positive_cash_flow",
          current_cash |-> 0, monthly_burn_rate |-> 0,
          current_runway_months |-> 240,
          scenarios |-> <<>>,
          critical_date |-> NoDate]
    ELSE
        LET cash == f.cash
            burn12 == f.monthly_burn_x12
            \* current_runway < 12 months
            short == cash * 12 < 12 * burn12
        IN  [status |-> "",
             current_cash |-> cash,
             monthly_burn_rate |-> RoundHalfEven(burn12 * 100000, 12),
             current_runway_months |-> RoundHalfEven(cash * 120, burn12),
             scenarios |->
                <<RoundHalfEven(cash * 120, burn12),
                  RoundHalfEven(cash * 1200, burn12 * 9),
                  RoundHalfEven(cash * 1200, burn12 * 8),
                  RoundHalfEven(cash * 1200, burn12 * 11)>>,
             \* (datetime.now() + timedelta(days=current_runway * 30)) as a date
             critical_date |->
                IF short THEN [has |-> TRUE, day |-> t + (cash * 360) \div burn12]
                ELSE NoDate]

\* the 3, 6 and 12 month forecast of _forecast_revenue for annual revenue
\* revenue (thousands) and annual_rate (percent), in hundredths of a unit:
\* monthly_revenue * n * (1 + monthly_rate * n) with monthly_revenue =
\* revenue / 12 and monthly_rate = annual_rate / 12 / 100 for n = 3 and 6,
\* current_revenue * (1 + annual_rate / 100) for 12
horizon_forecast(horizon, revenue, annual_rate) ==
    CASE horizon = "3_month"  -> RoundHalfEven(revenue * 125 * (400 + annual_rate), 2)
      [] horizon = "6_month"  -> revenue * 250 * (200 + annual_rate)
      [] horizon = "12_month" -> revenue * 1000 * (100 + annual_rate)

\* _forecast_revenue(financials, growth_rates); the projected revenue of
\* month m is monthly_revenue * (1 + base_monthly_rate * m), in hundredths
forecast_revenue(f, growth_rates) ==
    [current_annual_revenue |-> f.revenue,
     forecasts |->
        [h \in {"3_month", "6_month", "12_month"} |->
            [sc \in {"base", "optimistic", "pessimistic"} |->
                horizon_forecast(h, f.revenue, growth_rates[sc])]],
     \* the projected_revenue of months 1..12, the month being the index
     monthly_breakdown |->
        [month \in 1..12 |->
            RoundHalfEven(f.revenue * 125 * (1200 + growth_rates.base * month), 18)]]

\* inflow, outflow and net_flow of month m in _forecast_cash_flow, in thirds
\* of a hundredth of a unit: monthly_revenue * (1 + 0.01 * m) and
\* monthly_expenses * (1 + 0.005 * m)
inflow3(f, m) == f.revenue * 250 * (100 + m)
outflow3(f, m) == f.monthly_burn_x12 * 125 * (200 + m)
net_flow3(f, m) == inflow3(f, m) - outflow3(f, m)

\* running_cash after month m with the balance not carried forward
running_cash3_not_carried(f, m) ==
    f.cash * 300000 + (IF m = 0 THEN 0 ELSE net_flow3(f, m))

\* running_cash after month m of the loop, 0 for before the loop
RECURSIVE running_cash3(_, _)
running_cash3(f, m) ==
    IF m = 0 THEN f.cash * 300000
    ELSE running_cash3(f, m - 1) + net_flow3(f, m)

\* sum(p["net_flow"] for p in monthly_projection) over months 1..m, of the
\* rounded net flows, in hundredths
RECURSIVE SumNetFlow(_, _)
SumNetFlow(f, m) ==
    IF m = 0 THEN 0
    ELSE SumNetFlow(f, m - 1) + RoundHalfEven(net_flow3(f, m), 3)

\* _forecast_cash_flow(financials): starting_cash in thousands, the other
\* amounts in hundredths of a unit
forecast_cash_flow(f) ==
    [starting_cash |-> f.cash,
     monthly_projection |->
        [month \in 1..6 |->
            [month       |-> month,
             inflow      |-> RoundHalfEven(inflow3(f, month), 3),
             outflow     |-> RoundHalfEven(outflow3(f, month), 3),
             net_flow    |-> RoundHalfEven(net_flow3(f, month), 3),
             ending_cash |-> RoundHalfEven(running_cash3(f, month), 3)]],
     projected_cash_6m |-> RoundHalfEven(running_cash3(f, 6), 3),
     average_monthly_net_flow |-> RoundHalfEven(SumNetFlow(f, 6), 6)]

\* _calculate_break_even(financials).  With revenue > 0 the contribution
\* margin is (10 revenue - 7 expenses) / (10 revenue), else 0.3; the
\* break-even revenue is fixed_costs / contribution_margin when that is
\* positive, else 0.  break_even_revenue is kept in tenths of a thousand,
\* fixed_costs_estimate in hundredths of a unit, the percentages in tenths.
calculate_break_even(f) ==
    LET revenue == f.revenue
        expenses == f.expenses
        \* ten times revenue times the contribution margin
        cm == 10 * revenue - 7 * expenses
    IN  [break_even_revenue |->
            IF revenue > 0
            THEN IF cm > 0 THEN RoundHalfEven(30 * expenses * revenue, cm) ELSE 0
            ELSE 10 * expenses,
         current_revenue |-> revenue,
         break_even_percentage |->
            IF revenue > 0 /\ cm > 0 THEN RoundHalfEven(3000 * expenses, cm) ELSE 0,
         margin_of_safety |->
            IF revenue > 0
            THEN IF cm > 0 THEN RoundHalfEven(10000 * (revenue - expenses), cm)
                 ELSE 1000
            ELSE 0,
         is_profitable |-> f.profit > 0,
         fixed_costs_estimate |-> 30000 * expenses,
         contribution_margin |->
            IF revenue > 0 THEN RoundHalfEven(100 * cm, revenue) ELSE 300]

\* generate_forecast(raw_data, industry) at clock value t, with the growth
\* rates it uses; key_metrics_trend is left out
generate_forecast(data, ind, t) ==
    LET financials == extract_current_values(data)
        growth_rates == GrowthRatesFor(ind)
    IN  [growth_rates |-> growth_rates,
         revenue_forecast |-> forecast_revenue(financials, growth_rates),
         cash_flow_projection |-> forecast_cash_flow(financials),
         break_even_analysis |-> calculate_break_even(financials),
         growth_scenarios |-> generate_scenarios(financials, growth_rates),
         cash_runway_projection |-> project_cash_runway(financials, t)]

---------------------------------------------------------------------------
(* FinancialCalculator.  Its amounts are whole currency units, not         *)
(* thousands: the denominators it defaults to are the number 1.  The raw   *)
(* data has the summary and financial_data blocks of the forecasting       *)
(* engine, the summary with total_assets and total_liabilities as well.    *)

NameHas(col, word) ==
    CASE word = "cash"       -> col \in {"Cash", "Cash Sales", "Petty cash"}
      [] word = "bank"       -> col \in {"Bank"}
      [] word = "inventory"  -> col \in {"Inventory"}
      [] word = "receivable" -> col \in {"Accounts Receivable"}
      [] word = "payable"    -> col \in {"Accounts Payable"}

\* _extract_financials(raw_data): the dict financials, a function on the
\* keys it holds.  Each key is given by what the statements that assign it
\* leave in it.  At most one column has category "profit" (the code keeps
\* the last one it iterates over).
extract_financials(data) ==
    LET hasSummary == data.summary.has
        cols == IF data.fdata.has THEN data.fdata.cols ELSE [c \in {} |-> 0]
        Of(cat) == {c \in DOMAIN cols : cols[c].category = cat}
        assetCash == {c \in Of("asset") : NameHas(c, "cash") \/ NameHas(c, "bank")}
        assetInv  == {c \in Of("asset") \ assetCash : NameHas(c, "inventory")}
        assetRec  == {c \in Of("asset") \ (assetCash \cup assetInv) :
                          NameHas(c, "receivable")}
        liabPay   == {c \in Of("liability") : NameHas(c, "payable")}
        \* financials.get(key, 0) + total over the columns S, from the
        \* summary's value if it has one
        Summed(fromSummary, S) ==
            (IF hasSummary THEN fromSummary ELSE 0) + SumTotals(S, cols)
        revenue == Summed(data.summary.total_revenue, Of("revenue"))
        total_expenses == Summed(data.summary.total_expenses, Of("expense"))
        total_assets == Summed(data.summary.total_assets, Of("asset"))
        total_liabilities == Summed(data.summary.total_liabilities, Of("liability"))
        hasRevenue == hasSummary \/ Of("revenue") # {}
        hasExpenses == hasSummary \/ Of("expense") # {}
        derived == hasRevenue /\ hasExpenses
        hasProfit == hasSummary \/ Of("profit") # {}
        net_profit ==
            IF Of("profit") # {} THEN cols[CHOOSE c \in Of("profit") : TRUE].total
            ELSE IF hasSummary THEN data.summary.total_profit
            ELSE revenue - total_expenses
        cash == SumTotals(assetCash, cols)
        inventory == SumTotals(assetInv, cols)
        accounts_receivable == SumTotals(assetRec, cols)
        accounts_payable == SumTotals(liabPay, cols)
        keys ==
            {"current_assets", "current_liabilities", "equity", "total_debt",
             "cost_of_goods_sold"}
            \cup (IF hasRevenue THEN {"revenue"} ELSE {})
            \cup (IF hasExpenses THEN {"total_expenses"} ELSE {})
            \cup (IF hasProfit \/ derived THEN {"net_profit"} ELSE {})
            \cup (IF hasSummary \/ Of("asset") # {} THEN {"total_assets"} ELSE {})
            \cup (IF hasSummary \/ Of("liability") # {} THEN {"total_liabilities"} ELSE {})
            \cup (IF assetCash # {} THEN {"cash"} ELSE {})
            \cup (IF assetInv # {} THEN {"inventory"} ELSE {})
            \cup (IF assetRec # {} THEN {"accounts_receivable"} ELSE {})
            \cup (IF liabPay # {} THEN {"accounts_payable"} ELSE {})
            \cup (IF derived THEN {"gross_profit", "operating_income"} ELSE {})
    IN  [k \in keys |->
            CASE k = "revenue"             -> revenue
              [] k = "total_expenses"      -> total_expenses
              [] k = "net_profit"          -> net_profit
              [] k = "total_assets"        -> total_assets
              [] k = "total_liabilities"   -> total_liabilities
              [] k = "cash"                -> cash
              [] k = "inventory"           -> inventory
              [] k = "accounts_receivable" -> accounts_receivable
              [] k = "accounts_payable"    -> accounts_payable
              [] k = "gross_profit"        -> (revenue * 35) \div 100
              [] k = "operating_income"    -> (net_profit * 12) \div 10
              [] k = "current_assets"      -> cash + accounts_receivable + inventory
              [] k = "current_liabilities" ->
                    accounts_payable + (total_liabilities * 3) \div 10
              [] k = "equity"              -> total_assets - total_liabilities
              [] k = "total_debt"          -> total_liabilities
              [] k = "cost_of_goods_sold"  -> (total_expenses * 7) \div 10]

\* _safe_divide(numerator, denominator), the quotient times scale: scale 100
\* for a ratio in hundredths, 10000 for a percentage (the code's * 100) in
\* hundredths, rounded down to the unit
safe_divide(numerator, denominator, scale) ==
    IF denominator = 0 THEN 0
    ELSE (numerator * scale) \div denominator

\* _calculate_cash_runway(financials), in tenths of a day
calculate_cash_runway(f) ==
    LET cash == Get(f, "cash", 0)
        expenses == Get(f, "total_expenses", 0)
    IN  IF expenses <= 0 THEN 3650
        ELSE RoundHalfEven(cash * 360, expenses) * 10

\* _calculate_working_capital_cycle(financials), in tenths of a day:
\* round(dio + dso - dpo), the sum taken over the common denominator
calculate_working_capital_cycle(f) ==
    LET inventory == Get(f, "inventory", 0)
        cogs == Get(f, "cost_of_goods_sold", 1)
        receivables == Get(f, "accounts_receivable", 0)
        revenue == Get(f, "revenue", 1)
        payables == Get(f, "accounts_payable", 0)
        \* dio - dpo is overCogs / cogs, dso is overRevenue / revenue
        overCogs == IF cogs > 0 THEN (inventory - payables) * 365 ELSE 0
        overRevenue == IF revenue > 0 THEN receivables * 365 ELSE 0
        c == IF cogs > 0 THEN cogs ELSE 1
        r == IF revenue > 0 THEN revenue ELSE 1
    IN  RoundHalfEven(overCogs * r + overRevenue * c, c * r) * 10

\* calculate_all_metrics(raw_data).  revenue_growth and profit_growth, always
\* None, are left out.
calculate_all_metrics(data) ==
    LET f == extract_financials(data)
    IN  [current_ratio |->
            safe_divide(Get(f, "current_assets", 0), Get(f, "current_liabilities", 1), 100),
         quick_ratio |->
            safe_divide(Get(f, "current_assets", 0) - Get(f, "inventory", 0),
                        Get(f, "current_liabilities", 1), 100),
         cash_ratio |->
            safe_divide(Get(f, "cash", 0), Get(f, "current_liabilities", 1), 100),
         gross_margin |->
            safe_divide(Get(f, "gross_profit", 0), Get(f, "revenue", 1), 10000),
         net_margin |->
            safe_divide(Get(f, "net_profit", 0), Get(f, "revenue", 1), 10000),
         operating_margin |->
            safe_divide(Get(f, "operating_income", 0), Get(f, "revenue", 1), 10000),
         roe |->
            safe_divide(Get(f, "net_profit", 0), Get(f, "equity", 1), 10000),
         roa |->
            safe_divide(Get(f, "net_profit", 0), Get(f, "total_assets", 1), 10000),
         debt_to_equity |->
            safe_divide(Get(f, "total_debt", 0), Get(f, "equity", 1), 100),
         debt_ratio |->
            safe_divide(Get(f, "total_debt", 0), Get(f, "total_assets", 1), 100),
         interest_coverage |->
            safe_divide(Get(f, "operating_income", 0), Get(f, "interest_expense", 1), 100),
         inventory_turnover |->
            safe_divide(Get(f, "cost_of_goods_sold", 0), Get(f, "inventory", 1), 100),
         receivables_turnover |->
            safe_divide(Get(f, "revenue", 0), Get(f, "accounts_receivable", 1), 100),
         payables_turnover |->
            safe_divide(Get(f, "cost_of_goods_sold", 0), Get(f, "accounts_payable", 1), 100),
         asset_turnover |->
            safe_divide(Get(f, "revenue", 0), Get(f, "total_assets", 1), 100),
         cash_runway_days |-> calculate_cash_runway(f),
         working_capital |->
            Get(f, "current_assets", 0) - Get(f, "current_liabilities", 0),
         working_capital_cycle |-> calculate_working_capital_cycle(f),
         raw_values |->
            [revenue |-> Get(f, "revenue", 0),
             expenses |-> Get(f, "total_expenses", 0),
             net_profit |-> Get(f, "net_profit", 0),
             cash |-> Get(f, "cash", 0),
             total_assets |-> Get(f, "total_assets", 0),
             total_liabilities |-> Get(f, "total_liabilities", 0)]]

---------------------------------------------------------------------------
(* IndustryBenchmark.  Benchmark values are in the unit of their metric, a *)
(* percentile is in thousandths of a point, the aggregate percentile as    *)
(* reported in tenths.                                                     *)

BenchmarkMetrics ==
    {"current_ratio", "quick_ratio", "gross_margin", "net_margin",
     "debt_to_equity", "inventory_turnover", "asset_turnover", "cash_runway_days"}

Triple(l, m, h) == [low |-> l, median |-> m, high |-> h]

\* one industry's table, the triples in the order of BENCHMARKS' rows
Table(cr, qr, gm, nm, de, it, at, crd) ==
    [k \in BenchmarkMetrics |->
        CASE k = "current_ratio"      -> cr
          [] k = "quick_ratio"        -> qr
          [] k = "gross_margin"       -> gm
          [] k = "net_margin"         -> nm
          [] k = "debt_to_equity"     -> de
          [] k = "inventory_turnover" -> it
          [] k = "asset_turnover"     -> at
          [] k = "cash_runway_days"   -> crd]

BENCHMARKS ==
    [i \in Industries |->
        CASE i = "Manufacturing" ->
                Table(Triple(120, 150, 200), Triple(80, 100, 130),
                      Triple(2000, 3000, 4000), Triple(500, 1000, 1500),
                      Triple(80, 120, 180), Triple(400, 600, 1000),
                      Triple(80, 120, 180), Triple(600, 1200, 2000))
          [] i = "Retail" ->
                Table(Triple(100, 130, 180), Triple(50, 80, 120),
                      Triple(2500, 3500, 5000), Triple(300, 600, 1200),
                      Triple(50, 100, 150), Triple(600, 1000, 1500),
                      Triple(150, 250, 400), Triple(450, 900, 1500))
          [] i = "Agriculture" ->
                Table(Triple(100, 140, 200), Triple(60, 90, 120),
                      Triple(1500, 2500, 4000), Triple(500, 1200, 2000),
                      Triple(60, 100, 160), Triple(200, 400, 600),
                      Triple(50, 80, 120), Triple(900, 1800, 3000))
          [] i = "Services" ->
                Table(Triple(130, 180, 250), Triple(120, 170, 230),
                      Triple(4000, 5500, 7000), Triple(800, 1500, 2500),
                      Triple(30, 60, 100), Triple(0, 0, 0),
                      Triple(100, 180, 280), Triple(600, 1200, 2000))
          [] i = "Logistics" ->
                Table(Triple(110, 140, 190), Triple(90, 120, 160),
                      Triple(1500, 2500, 3500), Triple(300, 700, 1200),
                      Triple(100, 150, 250), Triple(800, 1500, 2500),
                      Triple(120, 180, 250), Triple(450, 900, 1500))
          [] i = "E-commerce" ->
                Table(Triple(120, 160, 220), Triple(80, 120, 180),
                      Triple(2000, 3500, 5000), Triple(200, 800, 1500),
                      Triple(40, 80, 140), Triple(800, 1200, 2000),
                      Triple(180, 300, 500), Triple(600, 1200, 2000))]

\* self.BENCHMARKS.get(industry, self.BENCHMARKS["Services"])
BenchmarksFor(ind) ==
    IF ind \in DOMAIN BENCHMARKS THEN BENCHMARKS[ind] ELSE BENCHMARKS["Services"]

\* the percentile with the band below low scaled by the median
calculate_percentile_by_median(value, low, median, high) ==
    IF value <= low
    THEN IF low > 0 THEN Min(25000, (value * 25000) \div median) ELSE 0
    ELSE IF value <= median
    THEN 25000 + ((value - low) * 25000) \div (median - low)
    ELSE IF value <= high
    THEN 50000 + ((value - median) * 25000) \div (high - median)
    ELSE IF value - high >= high THEN 100000
    ELSE Min(100000, 75000 + ((value - high) * 25000) \div high)

\* _calculate_percentile(value, low, median, high).  In the last branch
\* 75 + (value - high) / high * 25 is 100 or more from value = 2 * high on.
calculate_percentile(value, low, median, high) ==
    IF value <= low
    THEN IF low > 0 THEN Min(25000, (value * 25000) \div low) ELSE 0
    ELSE IF value <= median
    THEN 25000 + ((value - low) * 25000) \div (median - low)
    ELSE IF value <= high
    THEN 50000 + ((value - median) * 25000) \div (high - median)
    ELSE IF value - high >= high THEN 100000
    ELSE Min(100000, 75000 + ((value - high) * 25000) \div high)

\* the status with a value on a threshold left in the band below it
benchmark_status_strict(value, benchmark) ==
    IF value > benchmark.high THEN "excellent"
    ELSE IF value > benchmark.median THEN "good"
    ELSE IF value > benchmark.low THEN "average"
    ELSE "below_average"

\* the status of compare_to_industry
benchmark_status(value, benchmark) ==
    IF value >= benchmark.high THEN "excellent"
    ELSE IF value >= benchmark.median THEN "good"
    ELSE IF value >= benchmark.low THEN "average"
    ELSE "below_average"

\* every metric of the table, none skipped
ComparedMetrics_all(benchmarks) == DOMAIN benchmarks

\* the metrics compare_to_industry does not skip
ComparedMetrics(benchmarks) ==
    {k \in DOMAIN benchmarks :
        ~(benchmarks[k].low = benchmarks[k].high /\ benchmarks[k].high = 0)}

\* percentile_sum over the metrics S of a comparison
RECURSIVE SumPercentiles(_, _)
SumPercentiles(S, comparison) ==
    IF S = {} THEN 0
    ELSE LET k == CHOOSE x \in S : TRUE
         IN  comparison[k].percentile + SumPercentiles(S \ {k}, comparison)

\* _get_position_label(percentile), the percentile as sum / count
get_position_label(sum, count) ==
    IF sum >= 75000 * count THEN "Top Quartile (Industry Leader)"
    ELSE IF sum >= 50000 * count THEN "Above Average"
    ELSE IF sum >= 25000 * count THEN "Below Average"
    ELSE "Bottom Quartile (Needs Attention)"

\* the metrics in the order of the rows of a table, which is the order of
\* comparison.items()
BenchmarkOrder ==
    <<"current_ratio", "quick_ratio", "gross_margin", "net_margin",
      "debt_to_equity", "inventory_turnover", "asset_turnover", "cash_runway_days">>

\* the entries of strengths / weaknesses: the compared metrics whose status
\* is one of statuses, in the order of comparison.items()
SummaryEntries(comparison, statuses) ==
    LET ks == SelectSeq(BenchmarkOrder,
                        LAMBDA k : /\ k \in DOMAIN comparison
                                   /\ comparison[k].status \in statuses)
    IN  [i \in 1..Len(ks) |->
            [metric     |-> ks[i],
             value      |-> comparison[ks[i]].company_value,
             percentile |-> comparison[ks[i]].percentile]]

\* x put into the sorted list s behind every entry that does not come after
\* it (list.sort is stable)
InsertSorted(s, x, reverse) ==
    LET n == Cardinality({i \in DOMAIN s :
                            IF reverse THEN s[i].percentile >= x.percentile
                                       ELSE s[i].percentile <= x.percentile})
    IN  SubSeq(s, 1, n) \o <<x>> \o SubSeq(s, n + 1, Len(s))

\* list.sort(key=lambda x: x["percentile"], reverse=reverse)
RECURSIVE SortByPercentile(_, _)
SortByPercentile(s, reverse) ==
    IF s = <<>> THEN <<>>
    ELSE InsertSorted(SortByPercentile(SubSeq(s, 1, Len(s) - 1), reverse),
                      s[Len(s)], reverse)

\* xs[:3]
FirstThree(xs) == SubSeq(xs, 1, Min(3, Len(xs)))

\* _generate_benchmark_summary without the two sorts
generate_benchmark_summary_unsorted(comparison, sum, count) ==
    [overall_position |-> get_position_label(sum, count),
     top_strengths    |-> FirstThree(SummaryEntries(comparison, {"excellent", "good"})),
     areas_for_improvement |->
        FirstThree(SummaryEntries(comparison, {"below_average"}))]

\* _generate_benchmark_summary(comparison, overall_percentile), the
\* percentile as sum / count
generate_benchmark_summary(comparison, sum, count) ==
    [overall_position |-> get_position_label(sum, count),
     top_strengths    |->
        FirstThree(SortByPercentile(
            SummaryEntries(comparison, {"excellent", "good"}), TRUE)),
     areas_for_improvement |->
        FirstThree(SortByPercentile(
            SummaryEntries(comparison, {"below_average"}), FALSE))]

\* compare_to_industry(metrics, industry)
compare_to_industry(m, ind) ==
    LET benchmarks == BenchmarksFor(ind)
        comparison ==
            [k \in ComparedMetrics(benchmarks) |->
                [company_value   |-> Get(m, k, 0),
                 industry_low    |-> benchmarks[k].low,
                 industry_median |-> benchmarks[k].median,
                 industry_high   |-> benchmarks[k].high,
                 percentile      |-> calculate_percentile(Get(m, k, 0),
                                        benchmarks[k].low, benchmarks[k].median,
                                        benchmarks[k].high),
                 status          |-> benchmark_status(Get(m, k, 0), benchmarks[k])]]
        percentile_count == Cardinality(DOMAIN comparison)
        percentile_sum == SumPercentiles(DOMAIN comparison, comparison)
    IN  [industry   |-> ind,
         percentile |-> IF percentile_count > 0
                        THEN RoundHalfEven(percentile_sum, percentile_count * 100)
                        ELSE 500,
         comparison |-> comparison,
         summary    |-> IF percentile_count > 0
                        THEN generate_benchmark_summary(comparison, percentile_sum,
                                                        percentile_count)
                        ELSE generate_benchmark_summary(comparison, 50000, 1)]

---------------------------------------------------------------------------
(* The inputs of the model *)

\* the largest number of fields of a raw input, and of columns of its
\* financial_data block
MaxKeys == 2
MaxColumns == 2

\* an industry string outside the closed set
UnknownIndustry == "Unknown"

IndustryInputs == Industries \cup {UnknownIndustry}

\* industry strings outside the closed set: an unknown name, a known name in
\* another capitalisation, the empty string
OtherIndustries == {UnknownIndustry, "retail", ""}

\* the aggregate fields _extract_metrics reads, and total_expenses, which it
\* does not
AggregateKeys ==
    {"revenue", "total_revenue", "cost_of_goods_sold", "net_income", "profit",
     "total_assets", "current_assets", "current_liabilities",
     "total_liabilities", "cash", "cash_balance", "monthly_expenses",
     "expenses", "total_expenses"}

InputKeys == MetricNames \cup AggregateKeys

\* a negative value of metric k, in its unit: -3.00 (a ratio, a percentage),
\* -500 days, -300,000 (working capital)
NegativeValue(k) ==
    IF k \in {"cash_runway_days", "working_capital_cycle"} THEN -5000 ELSE -300

\* the values a field takes: a metric in its unit (2000 is 20.00, 200 days
\* or 2,000,000), an amount in thousands
FieldValues(k) ==
    IF k \in MetricNames
    THEN {Num(NegativeValue(k)), Num(2000), BadStr}
    ELSE {Num(0), Num(1000), Null}

AllFieldValues == UNION {FieldValues(k) : k \in InputKeys}

\* the dicts with the fields ks, each at one of its values
DictsOver(ks) ==
    {d \in [ks -> AllFieldValues] : \A k \in ks : d[k] \in FieldValues(k)}

Dict(top) == [kind |-> "dict", top |-> top]

\* revenue 1,000,000, total_expenses 850,000, cash 100,000
Scenario3 ==
    [k \in {"revenue", "total_expenses", "cash"} |->
        CASE k = "revenue"        -> Num(1000)
          [] k = "total_expenses" -> Num(850)
          [] k = "cash"           -> Num(100)]

\* the subsets of S with at most n elements
RECURSIVE SubsetsUpTo(_, _)
SubsetsUpTo(S, n) ==
    IF n = 0 THEN {{}}
    ELSE LET smaller == SubsetsUpTo(S, n - 1)
         IN  smaller \cup {T \cup {x} : T \in smaller, x \in S}

RawInputs ==
    {Dict(d) : d \in UNION {DictsOver(ks) : ks \in SubsetsUpTo(InputKeys, MaxKeys)}}
    \cup {Dict(Scenario3)}
    \cup {[kind |-> t, top |-> EmptyDict] : t \in {"list", "null"}}

---------------------------------------------------------------------------
(* HealthScoreCalculator.calculate_comprehensive_score, step by step *)

NoMetrics == [k \in {} |-> 0]

NoResult ==
    [overall_score |-> 0, grade |-> "", liquidity_score |-> 0,
     profitability_score |-> 0, solvency_score |-> 0, efficiency_score |-> 0,
     cash_flow_score |-> 0, risk_level |-> "", weights_used |-> Weights(0, 0, 0, 0, 0)]

\* the parts of the state a specification does not use stay as they are here
GradeIdle == gscore = 0 /\ grade = "" /\ risk = ""
CurveIdle == cname = "" /\ clo = 0 /\ chi = 0 /\ cout = <<>>
AssessIdle == now = 0 /\ runs = <<>>
CalcIdle == fin = <<>> /\ fout = <<>>
AnalysisIdle == bench = <<>> /\ factors = <<>>
CacheIdle ==
    health_scores = <<>> /\ financial_data = <<>> /\ request = <<>> /\ response = <<>>

Init ==
    /\ raw \in RawInputs
    /\ industry \in IndustryInputs
    /\ pc = "start"
    /\ metrics = NoMetrics
    /\ result = NoResult
    /\ ai_summary = ""
    /\ error = ""
    /\ GradeIdle /\ CurveIdle /\ AssessIdle /\ CalcIdle /\ AnalysisIdle /\ CacheIdle

\* metrics = self._extract_metrics(financial_data)
ExtractMetrics ==
    /\ pc = "start"
    /\ LET ex == extract_metrics(raw)
       IN  IF ex.err = ""
           THEN /\ metrics' = ex.m
                /\ pc' = "extracted"
                /\ error' = ""
           ELSE /\ metrics' = metrics
                /\ pc' = "raised"
                /\ error' = ex.err
    /\ UNCHANGED <<raw, industry, result, ai_summary, gradeVars, curveVars, assessVars,
                   calcVars, analysisVars, cacheVars>>

\* score_result = self.calculate_health_score(metrics, self.industry), then
\* score_result["ai_summary"] = self._generate_summary(score_result)
CalculateHealthScore ==
    /\ pc = "extracted"
    /\ result' = calculate_health_score(metrics, industry)
    /\ ai_summary' = generate_summary(result')
    /\ pc' = "scored"
    /\ UNCHANGED <<raw, industry, metrics, error, gradeVars, curveVars,
                   assessVars, calcVars, analysisVars, cacheVars>>

Next == ExtractMetrics \/ CalculateHealthScore

Spec == Init /\ [][Next]_vars

---------------------------------------------------------------------------
(* calculate_comprehensive_score on companies that differ in one ratio *)

\* current_ratio runs from 0 to MaxRatio hundredths
MaxRatio == 200

\* net_margin 20.00 and gross_margin 50.00
StrongMargins ==
    [k \in {"net_margin", "gross_margin"} |->
        IF k = "net_margin" THEN Num(2000) ELSE Num(5000)]

\* the dict d with current_ratio v hundredths
WithCurrentRatio(d, v) ==
    [k \in DOMAIN d \cup {"current_ratio"} |->
        IF k = "current_ratio" THEN Num(v) ELSE d[k]]

ResultInputs ==
    {Dict(WithCurrentRatio(d, v)) : d \in {EmptyDict, StrongMargins}, v \in 0..MaxRatio}

InitResult ==
    /\ raw \in ResultInputs
    /\ industry \in IndustryInputs
    /\ pc = "start"
    /\ metrics = NoMetrics
    /\ result = NoResult
    /\ ai_summary = ""
    /\ error = ""
    /\ GradeIdle /\ CurveIdle /\ AssessIdle /\ CalcIdle /\ AnalysisIdle /\ CacheIdle

SpecResult == InitResult /\ [][Next]_vars

---------------------------------------------------------------------------
(* _calculate_grade and _calculate_risk_level on their own *)

\* scores from -ScoreSpan to ScoreSpan hundredths of a point are tried
ScoreSpan == 12000

\* a score in hundredths of a point, in the unit of the overall score
Hundredths(n) == n * 100000

ScoreIdle ==
    /\ raw = Dict(EmptyDict)
    /\ industry = "Services"
    /\ pc = "idle"
    /\ metrics = NoMetrics
    /\ result = NoResult
    /\ ai_summary = ""
    /\ error = ""

InitGrade ==
    /\ gscore \in -ScoreSpan..ScoreSpan
    /\ grade = ""
    /\ risk = ""
    /\ ScoreIdle /\ CurveIdle /\ AssessIdle /\ CalcIdle /\ AnalysisIdle /\ CacheIdle

CalculateGrade ==
    /\ grade = ""
    /\ grade' = calculate_grade(Hundredths(gscore))
    /\ UNCHANGED <<gscore, risk, scoreVars, curveVars, assessVars, calcVars,
                   analysisVars, cacheVars>>

CalculateRiskLevel ==
    /\ risk = ""
    /\ risk' = calculate_risk_level(Hundredths(gscore))
    /\ UNCHANGED <<gscore, grade, scoreVars, curveVars, assessVars, calcVars,
                   analysisVars, cacheVars>>

NextGrade == CalculateGrade \/ CalculateRiskLevel

SpecGrade == InitGrade /\ [][NextGrade]_vars

---------------------------------------------------------------------------
(* One scoring curve applied to two values of its metric *)

\* the values 0..MaxCurveValue of a metric, in its unit, are tried, each
\* against the values up to MaxGap above it
MaxCurveValue == 5100
MaxGap == 2

InitCurve ==
    /\ cname \in MetricNames
    /\ clo \in 0..MaxCurveValue
    /\ chi \in (clo + 1)..(clo + MaxGap)
    /\ cout = <<>>
    /\ ScoreIdle /\ GradeIdle /\ AssessIdle /\ CalcIdle /\ AnalysisIdle /\ CacheIdle

ApplyCurve ==
    /\ cout = <<>>
    /\ cout' = <<SubScore(cname, clo), SubScore(cname, chi)>>
    /\ UNCHANGED <<cname, clo, chi, scoreVars, gradeVars, assessVars, calcVars,
                   analysisVars, cacheVars>>

NextCurve == ApplyCurve

SpecCurve == InitCurve /\ [][NextCurve]_vars

---------------------------------------------------------------------------
(* The assessment get_health_score computes from one raw input: the        *)
(* comprehensive score and the forecast, run several times while the       *)
(* clock advances.                                                         *)

\* the clock runs from day 0 to day MaxClock; at most MaxRuns assessments
MaxClock == 1
MaxRuns == 2

ColumnCategory(col) ==
    CASE col = "Sales"      -> "revenue"
      [] col = "Cash Sales" -> "revenue"
      [] col = "Rent"       -> "expense"
      [] col = "Cash"       -> "asset"
      [] col = "Equipment"  -> "asset"

ColumnNames == {"Sales", "Cash Sales", "Rent", "Cash", "Equipment"}

\* the financial_data blocks: at most MaxColumns columns, totals in thousands
ColumnInputs ==
    UNION {[ks -> {300, 2400}] : ks \in SubsetsUpTo(ColumnNames, MaxColumns)}

FinancialDataInputs ==
    {[has |-> FALSE, cols |-> [c \in {} |-> 0]]}
    \cup {[has |-> TRUE,
           cols |-> [c \in DOMAIN t |-> [category |-> ColumnCategory(c), total |-> t[c]]]] :
            t \in ColumnInputs}

SummaryInputs ==
    {[has |-> FALSE, total_revenue |-> 0, total_expenses |-> 0, total_profit |-> 0]}
    \cup {[has |-> TRUE, total_revenue |-> r, total_expenses |-> e, total_profit |-> r - e] :
            r \in {0, 1200}, e \in {0, 1200}}

\* revenue 1,000,000, expenses 850,000 and cash 100,000 as top-level fields
TopLevelFigures ==
    [k \in {"revenue", "expenses", "cash"} |->
        CASE k = "revenue"  -> Num(1000)
          [] k = "expenses" -> Num(850)
          [] k = "cash"     -> Num(100)]

\* the stored raw data: what the file processor writes (a summary and a
\* financial_data block, no top-level figure), and the raw inputs that carry
\* their figures as top-level fields only
StoredRawInputs ==
    {[kind |-> "dict", top |-> EmptyDict, summary |-> sm, fdata |-> fd] :
        sm \in SummaryInputs, fd \in FinancialDataInputs}
    \cup {[kind |-> "dict", top |-> d,
           summary |-> [has |-> FALSE, total_revenue |-> 0, total_expenses |-> 0,
                        total_profit |-> 0],
           fdata |-> [has |-> FALSE, cols |-> [c \in {} |-> 0]]] :
            d \in {Scenario3, TopLevelFigures}}

NoForecast == <<>>
NoBenchmark == <<>>

\* lines 94-104 of get_health_score at clock value t
Assessment(data, ind, t) ==
    LET ex == extract_metrics(data)
    IN  IF ex.err # ""
        THEN [error |-> ex.err, metrics |-> NoMetrics, score |-> NoResult,
              risk_factors |-> <<>>, benchmark |-> NoBenchmark,
              forecast |-> NoForecast]
        ELSE [error |-> "", metrics |-> ex.m,
              score |-> calculate_health_score(ex.m, ind),
              risk_factors |-> identify_risk_factors(ex.m),
              benchmark |-> compare_to_industry(ex.m, ind),
              forecast |-> generate_forecast(data, ind, t)]

InitAssess ==
    /\ raw \in StoredRawInputs
    /\ industry \in Industries \cup OtherIndustries
    /\ pc = "idle"
    /\ metrics = NoMetrics
    /\ result = NoResult
    /\ ai_summary = ""
    /\ error = ""
    /\ now = 0
    /\ runs = <<>>
    /\ GradeIdle /\ CurveIdle /\ CalcIdle /\ AnalysisIdle /\ CacheIdle

\* time passes
Tick ==
    /\ now < MaxClock
    /\ now' = now + 1
    /\ UNCHANGED <<runs, scoreVars, gradeVars, curveVars, calcVars, analysisVars, cacheVars>>

\* one more assessment of the same raw data and industry
Assess ==
    /\ Len(runs) < MaxRuns
    /\ runs' = Append(runs, Assessment(raw, industry, now))
    /\ UNCHANGED <<now, scoreVars, gradeVars, curveVars, calcVars, analysisVars, cacheVars>>

NextAssess == Tick \/ Assess

SpecAssess == InitAssess /\ [][NextAssess]_vars

---------------------------------------------------------------------------
(* FinancialCalculator.calculate_all_metrics on one raw input *)

CalcColumnCategory(col) ==
    CASE col = "Sales"               -> "revenue"
      [] col = "Rent"                -> "expense"
      [] col = "Net Profit"          -> "profit"
      [] col = "Cash"                -> "asset"
      [] col = "Inventory"           -> "asset"
      [] col = "Accounts Receivable" -> "asset"
      [] col = "Accounts Payable"    -> "liability"
      [] col = "Loan"                -> "liability"

CalcColumnNames ==
    {"Sales", "Rent", "Net Profit", "Cash", "Inventory", "Accounts Receivable",
     "Accounts Payable", "Loan"}

CalcFinancialDataInputs ==
    {[has |-> FALSE, cols |-> [c \in {} |-> 0]]}
    \cup {[has |-> TRUE,
           cols |-> [c \in DOMAIN t |-> [category |-> CalcColumnCategory(c), total |-> t[c]]]] :
            t \in UNION {[ks -> {100, 400}] : ks \in SubsetsUpTo(CalcColumnNames, MaxColumns)}}

CalcSummaryInputs ==
    {[has |-> FALSE, total_revenue |-> 0, total_expenses |-> 0, total_profit |-> 0,
      total_assets |-> 0, total_liabilities |-> 0]}
    \cup {[has |-> TRUE, total_revenue |-> r, total_expenses |-> e, total_profit |-> r - e,
           total_assets |-> a, total_liabilities |-> l] :
            r \in {0, 400}, e \in {0, 300}, a \in {0, 400}, l \in {0, 400}}

InitCalc ==
    /\ fin \in {[summary |-> sm, fdata |-> fd] :
                    sm \in CalcSummaryInputs, fd \in CalcFinancialDataInputs}
    /\ fout = <<>>
    /\ ScoreIdle /\ GradeIdle /\ CurveIdle /\ AssessIdle /\ AnalysisIdle /\ CacheIdle

CalculateAllMetrics ==
    /\ fout = <<>>
    /\ fout' = calculate_all_metrics(fin)
    /\ UNCHANGED <<fin, scoreVars, gradeVars, curveVars, assessVars, analysisVars, cacheVars>>

NextCalc == CalculateAllMetrics

SpecCalc == InitCalc /\ [][NextCalc]_vars

---------------------------------------------------------------------------
(* IndustryBenchmark.compare_to_industry on one extracted metrics record *)

\* at most MaxOverrides metrics of the record differ from the defaults
MaxOverrides == 1

\* values of a metric around its benchmark triple t: negative, zero, on each
\* threshold, inside each band, above the high and far above it
BenchValues(t) ==
    {-t.low - 100, 0, t.low - 1, t.low, (t.low + t.median) \div 2, t.median,
     (t.median + t.high) \div 2, t.high, t.high + 1, 3 * t.high + 100}

\* the assignments of a value around its triple to each metric of ks
RECURSIVE Overrides(_, _)
Overrides(ks, benchmarks) ==
    IF ks = {} THEN {[k \in {} |-> 0]}
    ELSE LET k == CHOOSE x \in ks : TRUE
         IN  {[x \in DOMAIN o \cup {k} |-> IF x = k THEN v ELSE o[x]] :
                 o \in Overrides(ks \ {k}, benchmarks),
                 v \in BenchValues(benchmarks[k])}

\* the metrics of a company under the low of every industry: current ratio
\* 0.50, quick ratio 0.30, gross margin 5, net margin 1, debt to equity 0.10,
\* inventory turnover 1, asset turnover 0.20, cash runway 10 days
WeakMetrics ==
    [k \in MetricNames |->
        CASE k = "current_ratio"      -> 50
          [] k = "quick_ratio"        -> 30
          [] k = "gross_margin"       -> 500
          [] k = "net_margin"         -> 100
          [] k = "debt_to_equity"     -> 10
          [] k = "inventory_turnover" -> 100
          [] k = "asset_turnover"     -> 20
          [] k = "cash_runway_days"   -> 100
          [] OTHER                    -> DefaultMetrics[k]]

\* the metrics records compared for industry ind: the empty record of a
\* non-mapping input, and the defaults or the weak company's metrics with
\* some benchmarked metrics set
BenchMetricsInputs(ind) ==
    {NoMetrics}
    \cup {[k \in MetricNames |-> IF k \in DOMAIN o THEN o[k] ELSE base[k]] :
            o \in UNION {Overrides(ks, BenchmarksFor(ind)) :
                            ks \in SubsetsUpTo(BenchmarkMetrics, MaxOverrides)},
            base \in {DefaultMetrics, WeakMetrics}}

InitBench ==
    /\ industry \in Industries \cup OtherIndustries
    /\ metrics \in BenchMetricsInputs(industry)
    /\ raw = Dict(EmptyDict)
    /\ pc = "idle"
    /\ result = NoResult
    /\ ai_summary = ""
    /\ error = ""
    /\ bench = <<>>
    /\ factors = <<>>
    /\ GradeIdle /\ CurveIdle /\ AssessIdle /\ CalcIdle /\ CacheIdle

CompareToIndustry ==
    /\ bench = <<>>
    /\ bench' = compare_to_industry(metrics, industry)
    /\ UNCHANGED <<factors, scoreVars, gradeVars, curveVars, assessVars, calcVars,
                   cacheVars>>

NextBench == CompareToIndustry

SpecBench == InitBench /\ [][NextBench]_vars

---------------------------------------------------------------------------
(* _identify_risk_factors on one extracted metrics record *)

\* the values of the five metrics the rules read, around the two thresholds
\* of each rule
RiskValues(k) ==
    CASE k = "current_ratio"        -> {0, 79, 80, 99, 100, 150}
      [] k = "cash_runway_days"     -> {0, 299, 300, 599, 600, 900}
      [] k = "net_margin"           -> {-300, 199, 200, 499, 500, 1000}
      [] k = "debt_to_equity"       -> {80, 200, 201, 300, 301, 1000}
      [] k = "receivables_turnover" -> {0, 100, 399, 400, 800}

RiskMetricsInputs ==
    {[k \in MetricNames |->
        CASE k = "current_ratio"        -> cr
          [] k = "cash_runway_days"     -> crd
          [] k = "net_margin"           -> nm
          [] k = "debt_to_equity"       -> de
          [] k = "receivables_turnover" -> rt
          [] OTHER                      -> DefaultMetrics[k]] :
        cr \in RiskValues("current_ratio"), crd \in RiskValues("cash_runway_days"),
        nm \in RiskValues("net_margin"), de \in RiskValues("debt_to_equity"),
        rt \in RiskValues("receivables_turnover")}

InitRisk ==
    /\ metrics \in RiskMetricsInputs
    /\ industry = "Services"
    /\ raw = Dict(EmptyDict)
    /\ pc = "idle"
    /\ result = NoResult
    /\ ai_summary = ""
    /\ error = ""
    /\ bench = <<>>
    /\ factors = <<>>
    /\ GradeIdle /\ CurveIdle /\ AssessIdle /\ CalcIdle /\ CacheIdle

IdentifyRiskFactors ==
    /\ factors = <<>>
    /\ factors' = [list |-> identify_risk_factors(metrics)]
    /\ UNCHANGED <<bench, scoreVars, gradeVars, curveVars, assessVars, calcVars,
                   cacheVars>>

NextRisk == IdentifyRiskFactors

SpecRisk == InitRisk /\ [][NextRisk]_vars

---------------------------------------------------------------------------
(* routers/analysis.py: get_health_score over the tables financial_data    *)
(* and health_scores of one company.  A timestamp is the value of the      *)
(* clock `now` when it is written; a request that writes one takes time,   *)
(* so that no two timestamps written are equal.  The JSON text columns are *)
(* kept as the values they encode, summary and recommendations are left    *)
(* out.                                                                    *)

\* at most MaxData uploads and MaxRows stored scores; the clock runs to MaxTime
MaxData == 2
MaxRows == 2
MaxTime == 4

\* validated_at of a row that was never validated (NULL)
NotValidated == -1

NoColumns == [has |-> FALSE, cols |-> [c \in {} |-> 0]]

\* the decrypted contents of financial_data.encrypted_data: {}, two
\* summaries, and a record whose current_ratio is not a number
DataContents ==
    {[kind |-> "dict", top |-> EmptyDict, summary |-> sm, fdata |-> NoColumns] :
        sm \in {x \in SummaryInputs : ~x.has \/ x.total_revenue = 1200}}
    \cup {[kind |-> "dict", top |-> [k \in {"current_ratio"} |-> BadStr],
           summary |-> CHOOSE x \in SummaryInputs : ~x.has, fdata |-> NoColumns]}

\* `not data` on what parse_financial_data returned
ParsedEmpty(data) ==
    data.top = EmptyDict /\ ~data.summary.has /\ ~data.fdata.has

\* a row of financial_data as upload_file stores it.  The table is the bag
\* of its rows: the id of a row is left out, no handler here reads it but to
\* find the row.
Uploaded(data) ==
    [data |-> data, is_validated |-> FALSE, validated_at |-> NotValidated]

\* the rows with the filter on is_validated left out
ValidatedRows_all(rows) == BagToSet(rows)

\* filter(FinancialData.is_validated == True)
ValidatedRows(rows) == {r \in BagToSet(rows) : r.is_validated}

\* .first() of an empty result
NoRow == <<>>

\* get_validated_data ordering by validated_at ascending
get_validated_data_oldest(rows) ==
    IF ValidatedRows(rows) = {} THEN NoRow
    ELSE CHOOSE r \in ValidatedRows(rows) :
            \A q \in ValidatedRows(rows) : r.validated_at <= q.validated_at

\* get_validated_data: the validated row with the greatest validated_at
get_validated_data(rows) ==
    IF ValidatedRows(rows) = {} THEN NoRow
    ELSE CHOOSE r \in ValidatedRows(rows) :
            \A q \in ValidatedRows(rows) : q.validated_at <= r.validated_at

\* order_by(HealthScore.calculated_at.desc()).first(): the index of the row,
\* 0 for None
latest_health_score(rows) ==
    IF rows = <<>> THEN 0
    ELSE CHOOSE i \in DOMAIN rows :
            \A j \in DOMAIN rows : rows[j].calculated_at <= rows[i].calculated_at

\* the columns of a HealthScore row, which are the fields of the response as
\* well; summary.overall_percentile is no key of the benchmark data, so the
\* percentile stored is the default 50 (in tenths)
HealthScoreFields(a) ==
    [overall_score       |-> a.score.overall_score,
     score_grade         |-> a.score.grade,
     risk_level          |-> a.score.risk_level,
     liquidity_score     |-> a.score.liquidity_score,
     profitability_score |-> a.score.profitability_score,
     solvency_score      |-> a.score.solvency_score,
     efficiency_score    |-> a.score.efficiency_score,
     cash_flow_score     |-> a.score.cash_flow_score,
     industry_percentile |-> 500,
     risk_factors        |-> a.risk_factors,
     benchmark_data      |-> a.benchmark,
     forecast_data       |-> a.forecast,
     metrics             |-> a.metrics]

\* raise HTTPException(status_code, detail), nothing written
Raise(status_code, detail) ==
    /\ response' = [status |-> status_code, detail |-> detail, body |-> <<>>,
                    computed |-> FALSE]
    /\ UNCHANGED <<health_scores, financial_data, now>>

\* return {"message": message}, the tables as the handler wrote them
Return(message) ==
    response' = [status |-> 200, detail |-> message, body |-> <<>>,
                 computed |-> FALSE]

InitCache ==
    /\ health_scores = <<>>
    /\ financial_data = <<>>
    /\ request = <<>>
    /\ response = <<>>
    /\ now = 0
    /\ runs = <<>>
    /\ industry = "Retail"
    /\ raw = Dict(EmptyDict)
    /\ pc = "idle"
    /\ metrics = NoMetrics
    /\ result = NoResult
    /\ ai_summary = ""
    /\ error = ""
    /\ GradeIdle /\ CurveIdle /\ CalcIdle /\ AnalysisIdle

\* upload_file: a new row, not validated
UploadFile ==
    /\ BagCardinality(financial_data) < MaxData
    /\ \E data \in DataContents :
          financial_data' = financial_data (+) SetToBag({Uploaded(data)})
    /\ request' = [handler |-> "upload_file", recalculate |-> FALSE, owned |-> TRUE]
    /\ Return("File uploaded successfully")
    /\ UNCHANGED <<health_scores, now, runs, scoreVars, gradeVars,
                   curveVars, calcVars, analysisVars>>

\* validate_data(financial_data_id, is_approved): no row of that id; a row
\* of a company that is not the caller's (owned: the row exists and its
\* company is one of the caller's); a row of the caller's, approved or
\* rejected
ValidateData ==
    /\ \/ /\ request' = [handler |-> "validate_data", recalculate |-> FALSE,
                          owned |-> FALSE]
          /\ \/ Raise(404, "Data not found")
             \/ /\ BagToSet(financial_data) # {}
                /\ Raise(403, "Access denied")
       \/ /\ request' = [handler |-> "validate_data", recalculate |-> FALSE,
                          owned |-> TRUE]
          /\ \E row \in BagToSet(financial_data), is_approved \in BOOLEAN :
                IF is_approved
                THEN /\ now < MaxTime
                     /\ financial_data' =
                           (financial_data (-) SetToBag({row}))
                           (+) SetToBag({[row EXCEPT !.is_validated = TRUE,
                                                     !.validated_at = now]})
                     /\ now' = now + 1
                     /\ Return("Data validated successfully")
                ELSE /\ financial_data' = financial_data (-) SetToBag({row})
                     /\ now' = now
                     /\ Return("Data rejected and removed")
    /\ UNCHANGED <<health_scores, runs, scoreVars, gradeVars,
                   curveVars, calcVars, analysisVars>>

\* get_health_score(company_id, recalculate); owned: the company is one of
\* the caller's
get_health_score(recalculate, owned) ==
    /\ request' = [handler |-> "get_health_score", recalculate |-> recalculate,
                   owned |-> owned]
    /\ IF ~owned
       THEN Raise(404, "Company not found")
       ELSE IF ~recalculate /\ latest_health_score(health_scores) # 0
       THEN /\ response' =
                  [status |-> 200, detail |-> "",
                   body |-> health_scores[latest_health_score(health_scores)].body,
                   computed |-> FALSE]
            /\ UNCHANGED <<health_scores, financial_data, now>>
       ELSE IF get_validated_data(financial_data) = NoRow
       THEN Raise(404, "No validated financial data found")
       ELSE IF ParsedEmpty(get_validated_data(financial_data).data)
       THEN Raise(500, "Failed to parse financial data")
       ELSE \* one more row and one more timestamp, while the model has room
            /\ Len(health_scores) < MaxRows
            /\ now < MaxTime
            /\ UNCHANGED financial_data
            /\ LET a == Assessment(get_validated_data(financial_data).data,
                                   industry, now)
               IN  IF a.error # ""
                   THEN \* the exception leaves the handler before db.add
                        /\ response' = [status |-> 500, detail |-> a.error,
                                        body |-> <<>>, computed |-> TRUE]
                        /\ UNCHANGED <<health_scores, now>>
                   ELSE /\ now' = now + 1
                        /\ health_scores' =
                              Append(health_scores,
                                     [calculated_at |-> now,
                                      body |-> HealthScoreFields(a)])
                        /\ response' = [status |-> 200, detail |-> "",
                                        body |-> HealthScoreFields(a),
                                        computed |-> TRUE]
    /\ UNCHANGED <<runs, scoreVars, gradeVars, curveVars, calcVars, analysisVars>>

GetHealthScore ==
    \E recalculate \in BOOLEAN, owned \in BOOLEAN :
        get_health_score(recalculate, owned)

NextCache == UploadFile \/ ValidateData \/ GetHealthScore

SpecCache == InitCache /\ [][NextCache]_vars

---------------------------------------------------------------------------
(* Properties *)

Extracted == pc \in {"extracted", "scored"}
Scored == pc = "scored"

CategoryScores(r) ==
    {r.liquidity_score, r.profitability_score, r.solvency_score,
     r.efficiency_score, r.cash_flow_score}

(* C1: for every metrics input and every industry, each of the five        *)
(* category sub-scores and the overall score of a result lies in [0,100]   *)
(* (0..1000 tenths of a point).                                            *)
C1_ScoresInRange ==
    Scored =>
        /\ \A c \in CategoryScores(result) : 0 <= c /\ c <= 1000
        /\ 0 <= result.overall_score /\ result.overall_score <= 1000

\* the grade and risk bands with their lower thresholds, in hundredths of a
\* point, the best band first
GradeBands ==
    <<[min |-> 9000, label |-> "A+"], [min |-> 8500, label |-> "A"],
      [min |-> 8000, label |-> "A-"], [min |-> 7500, label |-> "B+"],
      [min |-> 7000, label |-> "B"],  [min |-> 6500, label |-> "B-"],
      [min |-> 6000, label |-> "C+"], [min |-> 5500, label |-> "C"],
      [min |-> 5000, label |-> "C-"], [min |-> 4000, label |-> "D"]>>

RiskBands ==
    <<[min |-> 7500, label |-> "Low"], [min |-> 5500, label |-> "Medium"],
      [min |-> 3500, label |-> "High"]>>

\* label is what the bands (and the label below the last band) give score sc
InBand(bands, below, sc, label) ==
    /\ \A i \in 1..Len(bands) :
          (sc >= bands[i].min /\ (i = 1 \/ sc < bands[i - 1].min))
              => label = bands[i].label
    /\ sc < bands[Len(bands)].min => label = below

\* the place of a label among the bands, the best band first
Rank(bands, label) ==
    IF \E i \in 1..Len(bands) : bands[i].label = label
    THEN CHOOSE i \in 1..Len(bands) : bands[i].label = label
    ELSE Len(bands) + 1

SumWeights(w) ==
    w.liquidity + w.profitability + w.solvency + w.efficiency + w.cash_flow

(* C4: the five weights of each of the six industries and of the default   *)
(* set sum to 1.0 (100 hundredths), and weights_used of a result is the    *)
(* set of its industry, the default set for an unknown industry.           *)
C4_WeightsSumToOne ==
    /\ Cardinality(Industries) = 6
    /\ \A i \in Industries : SumWeights(INDUSTRY_WEIGHTS[i]) = 100
    /\ SumWeights(DEFAULT_WEIGHTS) = 100
    /\ Scored =>
          /\ SumWeights(result.weights_used) = 100
          /\ industry \in Industries => result.weights_used = INDUSTRY_WEIGHTS[industry]
          /\ industry \notin Industries => result.weights_used = DEFAULT_WEIGHTS

\* a Retail company has been scored with the Retail weights
C4_Witness ==
    /\ Scored
    /\ industry = "Retail"
    /\ result.weights_used = Weights(25, 20, 15, 25, 15)
    /\ result.weights_used # DEFAULT_WEIGHTS

(* C6: a metric supplied directly as a numeric field is extracted          *)
(* verbatim, also when aggregates from which it could be derived are       *)
(* present.                                                                *)
C6_DirectFieldVerbatim ==
    (Extracted /\ raw.kind = "dict") =>
        \A k \in MetricNames \cap DOMAIN raw.top :
            raw.top[k].t \in {"num", "numstr"} => metrics[k] = raw.top[k].v

(* C7: a field whose value is present but not numeric is treated as        *)
(* missing: extraction and scoring complete without raising.               *)
C7_NonNumericIsMissing ==
    (\E k \in DOMAIN raw.top : raw.top[k].t \in {"str", "null", "nested"})
        => (pc # "raised" /\ error = "")

\* the defaults the specification documents, each in the unit of its metric
DocumentedDefaults ==
    [current_ratio |-> 150, quick_ratio |-> 100, cash_ratio |-> 50,
     gross_margin |-> 3000, net_margin |-> 1000, roe |-> 1200,
     debt_to_equity |-> 80, debt_ratio |-> 40, interest_coverage |-> 300,
     inventory_turnover |-> 600, receivables_turnover |-> 800,
     asset_turnover |-> 120, cash_runway_days |-> 900,
     working_capital |-> 50, working_capital_cycle |-> 450]

\* the overall score of the defaults, in tenths of a point
Baseline(ind) ==
    CASE ind = "Manufacturing" -> 676
      [] ind = "Retail"        -> 679
      [] ind = "Agriculture"   -> 681
      [] ind = "Services"      -> 664
      [] ind = "Logistics"     -> 688
      [] ind = "E-commerce"    -> 678
      [] OTHER                 -> 675

(* C9: extraction on {} never raises and returns every metric at its       *)
(* documented default; scoring that record gives one fixed overall score   *)
(* per industry.                                                           *)
C9_EmptyInputDefaults ==
    raw = Dict(EmptyDict) =>
        /\ pc # "raised" /\ error = ""
        /\ Extracted => metrics = DocumentedDefaults
        /\ Scored => result.overall_score = Baseline(industry)

\* {} has been extracted and scored for a Retail company
C9_Witness ==
    /\ raw = Dict(EmptyDict)
    /\ industry = "Retail"
    /\ Scored
    /\ metrics.current_ratio = 150
    /\ result.overall_score = 679

(* C10: for {revenue 1,000,000, total_expenses 850,000, cash 100,000} and  *)
(* Retail, net_margin is about 15 (revenue minus total expenses), the      *)
(* runway is cash over the monthly burn total_expenses implies (100 * 360  *)
(* / 850 days), not the default 90, and the risk level is not Critical.    *)
C10_ScenarioRetail ==
    (raw = Dict(Scenario3) /\ industry = "Retail" /\ Scored) =>
        /\ 1450 <= metrics.net_margin /\ metrics.net_margin <= 1550
        /\ metrics.cash_runway_days = (100 * 3600) \div 850
        /\ metrics.cash_runway_days # 900
        /\ result.risk_level # "Critical"

LowerIsBetter == {"debt_to_equity", "debt_ratio", "working_capital_cycle"}
HigherIsBetter == MetricNames \ LowerIsBetter

(* C2: every scoring curve is monotone in the correct direction over the   *)
(* non-negative inputs: a larger value never scores lower on a             *)
(* higher-is-better metric and never scores higher on a lower-is-better    *)
(* one.                                                                    *)
C2_CurvesMonotone ==
    cout # <<>> =>
        /\ cname \in HigherIsBetter => cout[1] <= cout[2]
        /\ cname \in LowerIsBetter => cout[1] >= cout[2]

(* C5: two assessments of identical raw data and identical industry are   *)
(* identical in every part, whatever the time of each and whatever ran     *)
(* before.                                                                 *)
C5_Deterministic ==
    \A i, j \in 1..Len(runs) : runs[i] = runs[j]

(* C8: whenever the denominator of a derived ratio is zero or missing the  *)
(* metric takes its documented default (current_ratio 1.5, net_margin 10,  *)
(* debt_to_equity 0.8, roe 12, cash_runway_days 90) rather than 0.         *)
C8_ZeroDenominatorDefault ==
    fout # <<>> =>
        LET f == extract_financials(fin)
        IN  /\ f["current_liabilities"] = 0
                => fout.current_ratio = DocumentedDefaults.current_ratio
            /\ Get(f, "revenue", 0) = 0
                => fout.net_margin = DocumentedDefaults.net_margin
            /\ f["equity"] = 0
                => /\ fout.debt_to_equity = DocumentedDefaults.debt_to_equity
                   /\ fout.roe = DocumentedDefaults.roe
            /\ Get(f, "total_expenses", 0) = 0
                => fout.cash_runway_days = DocumentedDefaults.cash_runway_days

\* the metrics of the comparison bench holds
Compared == DOMAIN bench.comparison

(* C11: for every industry and every benchmarked metric whose triple is    *)
(* not (0,0,0), a company value equal to the industry low has percentile   *)
(* exactly 25, one equal to the median exactly 50, one equal to the high   *)
(* exactly 75.                                                             *)
C11_PercentileAtThresholds ==
    bench # <<>> =>
        \A k \in Compared :
            LET c == bench.comparison[k]
            IN  /\ c.company_value = c.industry_low    => c.percentile = 25000
                /\ c.company_value = c.industry_median => c.percentile = 50000
                /\ c.company_value = c.industry_high   => c.percentile = 75000

\* a Retail company with net_margin on the industry high, 12, cash runway on
\* the median, 90 days, and inventory turnover on the low, 6, has been compared
C11_Witness ==
    /\ bench # <<>>
    /\ industry = "Retail"
    /\ metrics # NoMetrics
    /\ metrics.net_margin = 1200
    /\ bench.comparison["net_margin"].percentile = 75000
    /\ metrics.cash_runway_days = 900
    /\ bench.comparison["cash_runway_days"].percentile = 50000
    /\ metrics.inventory_turnover = 600
    /\ bench.comparison["inventory_turnover"].percentile = 25000

(* C12: every per-metric percentile and the aggregate percentile of a      *)
(* comparison lie in [0,100], for every company value, negative ones       *)
(* included.                                                               *)
C12_PercentilesInRange ==
    bench # <<>> =>
        /\ \A k \in Compared :
              /\ 0 <= bench.comparison[k].percentile
              /\ bench.comparison[k].percentile <= 100000
        /\ 0 <= bench.percentile /\ bench.percentile <= 1000

(* C13: the aggregate percentile is the unweighted mean (reported to one   *)
(* decimal) of the percentiles of exactly the metrics in the comparison;   *)
(* a metric whose triple is (0,0,0), inventory_turnover for Services and   *)
(* for the industries that fall back to Services, is not in the            *)
(* comparison and counts in neither the sum nor the count.                 *)
C13_AggregateIsMean ==
    bench # <<>> =>
        LET table == IF industry \in Industries THEN BENCHMARKS[industry]
                     ELSE BENCHMARKS["Services"]
            n == Cardinality(Compared)
            sum == SumPercentiles(Compared, bench.comparison)
            \* the reported tenths times n, against the sum, in thousandths
            diff == bench.percentile * 100 * n - sum
        IN  /\ Compared = {k \in BenchmarkMetrics : table[k] # Triple(0, 0, 0)}
            /\ (industry \notin Industries \/ industry = "Services")
                  => Compared = BenchmarkMetrics \ {"inventory_turnover"}
            /\ (industry \in Industries \ {"Services"}) => Compared = BenchmarkMetrics
            /\ n > 0
            /\ 2 * diff <= 100 * n /\ -2 * diff <= 100 * n

\* a Services company whose inventory turnover is far from 0 has been
\* compared on seven metrics, and its aggregate is not a multiple of 25
C13_Witness ==
    /\ bench # <<>>
    /\ industry = "Services"
    /\ metrics # NoMetrics
    /\ metrics.inventory_turnover = 600
    /\ Cardinality(Compared) = 7
    /\ bench.percentile % 250 # 0

RuleOrder ==
    <<"Low Liquidity", "Low Cash Runway", "Low Profit Margins", "High Debt Levels",
      "Slow Collections">>

RuleFires(name, m) ==
    CASE name = "Low Liquidity"      -> m.current_ratio < 100
      [] name = "Low Cash Runway"    -> m.cash_runway_days < 600
      [] name = "Low Profit Margins" -> m.net_margin < 500
      [] name = "High Debt Levels"   -> m.debt_to_equity > 200
      [] name = "Slow Collections"   -> m.receivables_turnover < 400

FiresNow(name) == RuleFires(name, metrics)

\* the names of the factors of a list, in its order
FactorNames(list) == [i \in 1..Len(list) |-> list[i].name]

(* C18: the list of risk factors holds exactly one factor for each of the  *)
(* five rules whose condition holds and none for the others, in the rule   *)
(* order (so 0 to 5 entries, no duplicates); a value exactly on a          *)
(* threshold (current_ratio 1.0, runway 60, net_margin 5, debt_to_equity   *)
(* 2.0, receivables_turnover 4) does not fire its rule.                    *)
C18_RiskRulesIndependent ==
    factors # <<>> =>
        /\ FactorNames(factors.list) = SelectSeq(RuleOrder, FiresNow)
        /\ Len(factors.list) <= 5
        /\ \A i, j \in 1..Len(factors.list) :
              i # j => factors.list[i].name # factors.list[j].name
        /\ metrics.current_ratio = 100
              => \A i \in 1..Len(factors.list) : factors.list[i].name # "Low Liquidity"
        /\ metrics.cash_runway_days = 600
              => \A i \in 1..Len(factors.list) : factors.list[i].name # "Low Cash Runway"
        /\ metrics.net_margin = 500
              => \A i \in 1..Len(factors.list) : factors.list[i].name # "Low Profit Margins"
        /\ metrics.debt_to_equity = 200
              => \A i \in 1..Len(factors.list) : factors.list[i].name # "High Debt Levels"
        /\ metrics.receivables_turnover = 400
              => \A i \in 1..Len(factors.list) : factors.list[i].name # "Slow Collections"

\* all five rules have fired, in order
C18_Witness ==
    /\ factors # <<>>
    /\ FactorNames(factors.list) = RuleOrder
    /\ metrics.current_ratio = 99
    /\ metrics.receivables_turnover = 399

SeverityRank(sev) ==
    CASE sev = "medium" -> 1 [] sev = "high" -> 2 [] sev = "critical" -> 3
      [] OTHER -> 0

\* the metric a rule reads, its value just inside the rule's threshold and
\* its most extreme value
RuleMetric(name) ==
    CASE name = "Low Liquidity"      -> "current_ratio"
      [] name = "Low Cash Runway"    -> "cash_runway_days"
      [] name = "Low Profit Margins" -> "net_margin"
      [] name = "High Debt Levels"   -> "debt_to_equity"
      [] name = "Slow Collections"   -> "receivables_turnover"

JustInside(name) ==
    CASE name = "Low Liquidity"      -> 99
      [] name = "Low Cash Runway"    -> 599
      [] name = "Low Profit Margins" -> 499
      [] name = "High Debt Levels"   -> 201
      [] name = "Slow Collections"   -> 399

Extreme(name) ==
    CASE name = "Low Liquidity"      -> 0
      [] name = "Low Cash Runway"    -> 0
      [] name = "Low Profit Margins" -> -300
      [] name = "High Debt Levels"   -> 1000
      [] name = "Slow Collections"   -> 0

(* C19: each of the five rules escalates the severity of its factor at a   *)
(* second, stricter threshold: a fired factor has the base severity just   *)
(* inside the rule's threshold and a strictly higher one (medium < high <  *)
(* critical) once the metric is far enough past it; every severity is one  *)
(* of medium, high, critical.                                              *)
C19_SeverityEscalates ==
    factors # <<>> =>
        \A i \in 1..Len(factors.list) :
            LET f == factors.list[i]
                base == identify_risk_factors(
                            [k \in MetricNames |->
                                IF k = RuleMetric(f.name) THEN JustInside(f.name)
                                ELSE DefaultMetrics[k]])[1].severity
                worst == identify_risk_factors(
                            [k \in MetricNames |->
                                IF k = RuleMetric(f.name) THEN Extreme(f.name)
                                ELSE DefaultMetrics[k]])[1].severity
            IN  /\ f.severity \in {"medium", "high", "critical"}
                /\ SeverityRank(base) <= SeverityRank(f.severity)
                /\ SeverityRank(f.severity) <= SeverityRank(worst)
                /\ SeverityRank(base) < SeverityRank(worst)

(* C15: a raw input that is not a mapping (a list, a number, a string,    *)
(* null) fails fast with an input-validation error: no metrics record and  *)
(* no score are produced from it.                                          *)
C15_NonMappingFailsFast ==
    raw.kind # "dict" =>
        /\ pc \in {"start", "raised"}
        /\ pc = "raised" => error # ""
        /\ metrics = NoMetrics
        /\ result = NoResult

(* C14: an industry string outside the closed set ('retail', the empty    *)
(* string, an unknown name) causes no error in scoring, benchmarking or    *)
(* forecasting: scoring uses the default weights, benchmarking the         *)
(* fallback table (that of Services), forecasting the fallback growth      *)
(* rates base 10, optimistic 18, pessimistic 5, and the result is          *)
(* complete.                                                               *)
C14_UnknownIndustryFallback ==
    industry \notin Industries =>
        \A i \in 1..Len(runs) :
            LET r == runs[i]
            IN  /\ r.error = ""
                /\ r.score.weights_used = DEFAULT_WEIGHTS
                /\ r.score.grade # "" /\ r.score.risk_level # ""
                /\ r.benchmark.industry = industry
                /\ DOMAIN r.benchmark.comparison # {}
                /\ \A k \in DOMAIN r.benchmark.comparison :
                      LET c == r.benchmark.comparison[k]
                      IN  Triple(c.industry_low, c.industry_median, c.industry_high)
                              = BENCHMARKS["Services"][k]
                /\ r.forecast.growth_rates
                      = [base |-> 10, optimistic |-> 18, pessimistic |-> 5]
                /\ Len(r.forecast.growth_scenarios) = 3
                /\ r.forecast.cash_runway_projection.current_runway_months >= 0

\* a company of industry 'retail' and one of industry '' have been assessed
C14_Witness ==
    /\ industry \in {"retail", ""}
    /\ Len(runs) >= 1
    /\ runs[1].score.weights_used = DEFAULT_WEIGHTS
    /\ runs[1].forecast.growth_scenarios[2].growth_rate = 18

(* C16: the cash-runway projection never divides by zero: when the monthly *)
(* burn is 0 or negative it returns, for any cash balance, the fixed       *)
(* runway of 24 months with status positive_cash_flow; when the burn is    *)
(* positive current_runway_months is cash divided by the monthly burn (as  *)
(* reported, to one decimal).                                              *)
C16_CashRunwayProjection ==
    \A i \in 1..Len(runs) :
        LET f == extract_current_values(raw)
            p == runs[i].forecast.cash_runway_projection
            \* twelve times (months in tenths times the burn, less ten times cash)
            diff == p.current_runway_months * f.monthly_burn_x12 - f.cash * 120
        IN  /\ f.monthly_burn_x12 <= 0
                => /\ p.current_runway_months = 240
                   /\ p.status = "positive_cash_flow"
            /\ f.monthly_burn_x12 > 0
                => /\ 2 * diff <= f.monthly_burn_x12
                   /\ -2 * diff <= f.monthly_burn_x12
                   /\ p.status # "positive_cash_flow"

\* a company with cash and no expenses has been assessed
C16_Witness ==
    /\ Len(runs) >= 1
    /\ extract_current_values(raw).cash > 0
    /\ extract_current_values(raw).monthly_burn_x12 = 0
    /\ runs[1].forecast.cash_runway_projection.current_runway_months = 240

\* the validated rows of financial_data that no other was validated after
LastValidated ==
    {r \in ValidatedRows(financial_data) :
        \A q \in ValidatedRows(financial_data) \ {r} :
            q.validated_at < r.validated_at}

\* the step is a health-score request of the owner that changed something
OwnerRequest ==
    /\ request'.handler = "get_health_score"
    /\ response'.detail # "Company not found"
    /\ <<health_scores, request, response>>' # <<health_scores, request, response>>

(* C17: in any sequence of health-score requests of a company's owner, a   *)
(* request with recalculate=false made while a score is stored returns the *)
(* stored score calculated last, computes nothing and adds no row; a row   *)
(* is added only when recalculate=true or no score is stored, and it is    *)
(* computed from the financial data validated last; the request fails with *)
(* 404 and stores nothing when no data is validated; the rows stored are   *)
(* never modified.                                                         *)
C17_CachedUnlessRecalculate ==
    [][/\ Len(health_scores') >= Len(health_scores)
       /\ SubSeq(health_scores', 1, Len(health_scores)) = health_scores
       /\ health_scores' # health_scores => OwnerRequest
       /\ OwnerRequest =>
            /\ (~request'.recalculate /\ health_scores # <<>>)
                => /\ response'.status = 200
                   /\ response'.body = health_scores[Len(health_scores)].body
                   /\ ~response'.computed
                   /\ health_scores' = health_scores
            /\ health_scores' # health_scores
                => /\ request'.recalculate \/ health_scores = <<>>
                   /\ \E r \in LastValidated :
                         health_scores' =
                            Append(health_scores,
                                   [calculated_at |-> now,
                                    body |-> HealthScoreFields(
                                        Assessment(r.data, industry, now))])
                   /\ response'.status = 200
                   /\ response'.body = health_scores'[Len(health_scores')].body
            /\ ((request'.recalculate \/ health_scores = <<>>)
                    /\ ValidatedRows(financial_data) = {})
                => /\ response'.status = 404
                   /\ health_scores' = health_scores]_vars

\* two scores are stored, computed from different data, two data rows are
\* validated, and the last request was served the later score from the store
C17_Witness ==
    /\ Len(health_scores) = 2
    /\ health_scores[1].body # health_scores[2].body
    /\ Cardinality(ValidatedRows(financial_data)) = 2
    /\ request # <<>>
    /\ request.handler = "get_health_score"
    /\ ~request.recalculate
    /\ response.status = 200
    /\ ~response.computed
    /\ response.body = health_scores[2].body

\* the metrics a list of the summary names
Listed(xs) == {xs[i].metric : i \in DOMAIN xs}

\* the compared metrics whose status is one of statuses
InStatus(statuses) == {k \in Compared : bench.comparison[k].status \in statuses}

(* C21: top_strengths holds at most 3 metrics, each good or excellent, in  *)
(* non-increasing percentile order, and no good or excellent metric left   *)
(* out has a higher percentile than a listed one; areas_for_improvement    *)
(* holds at most 3 metrics, each below_average, in non-decreasing          *)
(* percentile order, and no below_average metric left out has a lower      *)
(* percentile than a listed one; no metric is in both lists.               *)
C21_StrengthsAndWeaknesses ==
    bench # <<>> =>
        LET top == bench.summary.top_strengths
            low == bench.summary.areas_for_improvement
            c == bench.comparison
        IN  /\ Len(top) <= 3 /\ Len(low) <= 3
            /\ Len(top) = Min(3, Cardinality(InStatus({"excellent", "good"})))
            /\ Len(low) = Min(3, Cardinality(InStatus({"below_average"})))
            /\ Cardinality(Listed(top)) = Len(top)
            /\ Cardinality(Listed(low)) = Len(low)
            /\ Listed(top) \subseteq InStatus({"excellent", "good"})
            /\ Listed(low) \subseteq InStatus({"below_average"})
            /\ \A i \in DOMAIN top : top[i].percentile = c[top[i].metric].percentile
            /\ \A i \in DOMAIN low : low[i].percentile = c[low[i].metric].percentile
            /\ \A i, j \in DOMAIN top : i < j => top[i].percentile >= top[j].percentile
            /\ \A i, j \in DOMAIN low : i < j => low[i].percentile <= low[j].percentile
            /\ \A k \in InStatus({"excellent", "good"}) \ Listed(top) :
                  \A i \in DOMAIN top : c[k].percentile <= top[i].percentile
            /\ \A k \in InStatus({"below_average"}) \ Listed(low) :
                  \A i \in DOMAIN low : c[k].percentile >= low[i].percentile
            /\ Listed(top) \cap Listed(low) = {}

\* a comparison with more than three strengths of different percentiles, the
\* first listed not the first compared, and with a weakness
C21_Witness ==
    /\ bench # <<>>
    /\ Cardinality(InStatus({"excellent", "good"})) > 3
    /\ Len(bench.summary.top_strengths) = 3
    /\ bench.summary.top_strengths[1].percentile > bench.summary.top_strengths[3].percentile
    /\ bench.summary.top_strengths[1].metric # "current_ratio"
    /\ bench.comparison["current_ratio"].status \in {"excellent", "good"}
    /\ Len(bench.summary.areas_for_improvement) >= 1

\* a comparison with more than three weaknesses of different percentiles
C21_WitnessWeak ==
    /\ bench # <<>>
    /\ Cardinality(InStatus({"below_average"})) > 3
    /\ bench.summary.areas_for_improvement[1].percentile
          < bench.summary.areas_for_improvement[3].percentile
    /\ bench.summary.areas_for_improvement[1].metric # "current_ratio"

\* the bands from below_average up to excellent
StatusRank(status) ==
    CASE status = "below_average" -> 0
      [] status = "average"       -> 1
      [] status = "good"          -> 2
      [] status = "excellent"     -> 3

(* C30: debt_to_equity is a lower-is-better metric in the comparison: for  *)
(* a fixed industry and otherwise identical metrics a higher               *)
(* debt_to_equity never has a higher percentile, never a status nearer to  *)
(* excellent, and is never listed among top_strengths when the lower one   *)
(* is not.                                                                 *)
C30_DebtToEquityLowerIsBetter ==
    (bench # <<>> /\ metrics # NoMetrics) =>
        \A v \in BenchValues(BenchmarksFor(industry)["debt_to_equity"]) :
            v > metrics.debt_to_equity =>
                LET higher == compare_to_industry(
                                [metrics EXCEPT !["debt_to_equity"] = v], industry)
                    mine == bench.comparison["debt_to_equity"]
                    theirs == higher.comparison["debt_to_equity"]
                IN  /\ theirs.percentile <= mine.percentile
                    /\ StatusRank(theirs.status) <= StatusRank(mine.status)
                    /\ "debt_to_equity" \in Listed(higher.summary.top_strengths)
                          => "debt_to_equity" \in Listed(bench.summary.top_strengths)

---------------------------------------------------------------------------
\* v grown by one month at the annual rate a percent, a twelfth of it a
\* month, rounded down to a whole hundredth
GrowOneMonth(v, a) == v + (v \div 1200) * a + ((v % 1200) * a) \div 1200

\* v grown by the monthly rate compounded over n months
RECURSIVE Compounded(_, _, _)
Compounded(v, a, n) ==
    IF n = 0 THEN v ELSE Compounded(GrowOneMonth(v, a), a, n - 1)

\* x and y differ by at most d
Within(x, y, d) == x - y <= d /\ y - x <= d

ScenarioNames == {"base", "optimistic", "pessimistic"}

(* C22: for each scenario of the selected industry the 3-month and 6-month *)
(* revenue forecasts equal the revenue of the horizon at the current       *)
(* monthly run-rate (annual revenue / 12 times the number of months) grown *)
(* by the scenario's monthly rate compounded over the horizon, to the      *)
(* hundredth reported, and the 12-month forecast equals the current annual *)
(* revenue times (1 + annual rate / 100).                                  *)
C22_RevenueForecastCompounded ==
    \A i \in 1..Len(runs) :
        \A sc \in ScenarioNames :
            LET fc == runs[i].forecast.revenue_forecast
                a == runs[i].forecast.growth_rates[sc]
                revenue == fc.current_annual_revenue
            IN  /\ Within(fc.forecasts["3_month"][sc],
                          Compounded(revenue * 25000, a, 3), 4)
                /\ Within(fc.forecasts["6_month"][sc],
                          Compounded(revenue * 50000, a, 6), 7)
                /\ fc.forecasts["12_month"][sc] = revenue * 1000 * (100 + a)

\* the 12-month part of C22 alone
C22_TwelveMonth ==
    \A i \in 1..Len(runs) :
        \A sc \in ScenarioNames :
            runs[i].forecast.revenue_forecast.forecasts["12_month"][sc]
                = runs[i].forecast.revenue_forecast.current_annual_revenue * 1000
                      * (100 + runs[i].forecast.growth_rates[sc])

\* ending_cash of month m of a cash-flow projection, the starting cash (in
\* hundredths) for month 0
EndingCash(cf, m) ==
    IF m = 0 THEN cf.starting_cash * 100000
    ELSE cf.monthly_projection[m].ending_cash

\* the sum of the reported net flows of months 1..m
RECURSIVE NetFlowTo(_, _)
NetFlowTo(cf, m) ==
    IF m = 0 THEN 0 ELSE NetFlowTo(cf, m - 1) + cf.monthly_projection[m].net_flow

(* C23: the cash-flow projection is a 6-step running simulation: it has    *)
(* exactly six entries numbered month 1..6 in order; for each month        *)
(* net_flow = inflow - outflow and ending_cash(m) = ending_cash(m-1) +     *)
(* net_flow(m) with ending_cash(0) = starting_cash, the current cash       *)
(* balance, so ending_cash(m) = starting_cash + the sum of net_flow(1..m); *)
(* projected_cash_6m equals ending_cash(6) and average_monthly_net_flow    *)
(* the sum of the six net flows divided by 6 (each amount to the hundredth *)
(* it is reported at).                                                     *)
C23_CashFlowRunningSimulation ==
    \A i \in 1..Len(runs) :
        LET cf == runs[i].forecast.cash_flow_projection
        IN  /\ DOMAIN cf.monthly_projection = 1..6
            /\ cf.starting_cash = extract_current_values(raw).cash
            /\ \A m \in 1..6 :
                  /\ cf.monthly_projection[m].month = m
                  /\ Within(cf.monthly_projection[m].net_flow,
                            cf.monthly_projection[m].inflow
                                - cf.monthly_projection[m].outflow, 1)
                  /\ Within(EndingCash(cf, m),
                            EndingCash(cf, m - 1) + cf.monthly_projection[m].net_flow, 1)
                  /\ Within(EndingCash(cf, m),
                            EndingCash(cf, 0) + NetFlowTo(cf, m), m)
            /\ cf.projected_cash_6m = EndingCash(cf, 6)
            /\ Within(6 * cf.average_monthly_net_flow, NetFlowTo(cf, 6), 3)

\* a company with cash, revenue and expenses has been projected, and the
\* balance of month 2 is not the starting cash plus the net flow of month 2
C23_Witness ==
    /\ Len(runs) >= 1
    /\ extract_current_values(raw).cash > 0
    /\ extract_current_values(raw).revenue > 0
    /\ extract_current_values(raw).expenses > 0
    /\ runs[1].forecast.cash_flow_projection.monthly_projection[1].net_flow # 0
    /\ EndingCash(runs[1].forecast.cash_flow_projection, 2)
          # EndingCash(runs[1].forecast.cash_flow_projection, 0)
              + runs[1].forecast.cash_flow_projection.monthly_projection[2].net_flow
    /\ runs[1].forecast.cash_flow_projection.projected_cash_6m
          = EndingCash(runs[1].forecast.cash_flow_projection, 0)
              + NetFlowTo(runs[1].forecast.cash_flow_projection, 6)

(* C29: the break-even analysis is consistent with profitability for      *)
(* every revenue > 0 and expenses >= 0: with fixed costs 30% and variable  *)
(* costs 70% of expenses, break_even_revenue = fixed costs / (1 - variable *)
(* costs / revenue), and the reported margin_of_safety is positive only    *)
(* when revenue > expenses; a company with expenses >= revenue, including  *)
(* one whose variable costs alone reach or exceed revenue, never reports a *)
(* positive margin of safety.                                              *)
C29_BreakEvenConsistent ==
    \A i \in 1..Len(runs) :
        LET f == extract_current_values(raw)
            be == runs[i].forecast.break_even_analysis
            \* ten times revenue times (1 - variable costs / revenue)
            cm == 10 * f.revenue - 7 * f.expenses
        IN  f.revenue > 0 /\ f.expenses >= 0
                => /\ cm > 0 =>
                        Within(2 * be.break_even_revenue * cm,
                               60 * f.expenses * f.revenue, cm)
                   /\ be.margin_of_safety > 0 => f.revenue > f.expenses
                   /\ f.expenses >= f.revenue => be.margin_of_safety <= 0

\* the part of C29 for a positive contribution margin
C29_PositiveContributionMargin ==
    \A i \in 1..Len(runs) :
        LET f == extract_current_values(raw)
            be == runs[i].forecast.break_even_analysis
        IN  f.revenue > 0 /\ 10 * f.revenue > 7 * f.expenses
                => /\ Within(2 * be.break_even_revenue * (10 * f.revenue - 7 * f.expenses),
                             60 * f.expenses * f.revenue,
                             10 * f.revenue - 7 * f.expenses)
                   /\ (be.margin_of_safety > 0 => f.revenue > f.expenses)
                   /\ (f.expenses >= f.revenue => be.margin_of_safety <= 0)

\* the numeric top-level field k of the raw input
HasTopLevel(k) == k \in DOMAIN raw.top /\ raw.top[k].t = "num"

(* C28: within one assessment the scorer and the forecaster read the same  *)
(* financial figures from the same raw input: when the raw input carries   *)
(* revenue, expenses or cash as top-level fields, the forecast's           *)
(* current_annual_revenue, monthly burn rate and starting_cash are         *)
(* computed from those figures; figures given only under summary /         *)
(* financial_data are the ones the scorer uses (its net_margin is their    *)
(* profit over their revenue); and the forecast is never computed from     *)
(* zero revenue while the score is computed from a positive revenue.       *)
C28_ScorerAndForecasterAgree ==
    \A i \in 1..Len(runs) :
        runs[i].error = "" =>
            LET fc == runs[i].forecast
                f == extract_current_values(raw)
            IN  /\ HasTopLevel("revenue") =>
                      fc.revenue_forecast.current_annual_revenue = raw.top["revenue"].v
                /\ HasTopLevel("cash") =>
                      fc.cash_flow_projection.starting_cash = raw.top["cash"].v
                /\ HasTopLevel("expenses") /\ raw.top["expenses"].v > 0 =>
                      /\ fc.cash_runway_projection.status # "positive_cash_flow"
                      /\ Within(12 * fc.cash_runway_projection.monthly_burn_rate,
                                raw.top["expenses"].v * 100000, 6)
                /\ raw.top = EmptyDict /\ f.revenue > 0 =>
                      Within(runs[i].metrics["net_margin"] * f.revenue,
                             10000 * f.profit, f.revenue)
                /\ HasTopLevel("revenue") /\ raw.top["revenue"].v > 0 =>
                      fc.revenue_forecast.current_annual_revenue > 0

\* the converse part of C28 alone: the scorer uses the figures given under
\* summary / financial_data
C28_ScorerUsesSummary ==
    \A i \in 1..Len(runs) :
        runs[i].error = "" /\ raw.top = EmptyDict
            /\ extract_current_values(raw).revenue > 0 =>
                Within(runs[i].metrics["net_margin"] * extract_current_values(raw).revenue,
                       10000 * extract_current_values(raw).profit,
                       extract_current_values(raw).revenue)

\* the forward part of C28 alone: the forecaster uses the top-level revenue
C28_ForecasterUsesTopLevel ==
    \A i \in 1..Len(runs) :
        runs[i].error = "" /\ HasTopLevel("revenue") =>
            runs[i].forecast.revenue_forecast.current_annual_revenue
                = raw.top["revenue"].v

(* C25: whenever get_health_score computes a new score, the               *)
(* industry_percentile it stores in the HealthScore row and returns to the *)
(* caller equals the aggregate percentile of the benchmark comparison      *)
(* computed in that same request (the percentile field of benchmark_data). *)
C25_StoredPercentileIsAggregate ==
    /\ \A i \in DOMAIN health_scores :
          health_scores[i].body.industry_percentile
              = health_scores[i].body.benchmark_data.percentile
    /\ (response # <<>> /\ response.status = 200 /\ response.computed)
          => response.body.industry_percentile
                 = response.body.benchmark_data.percentile

(* C26: after any sequence of upload, validate/reject and score requests, *)
(* a score returned by get_health_score for a company reflects that        *)
(* company's most recently validated financial data at the time of the     *)
(* request: once newer data has been validated, or the data a stored score *)
(* was computed from has been rejected and deleted, no later request is    *)
(* answered with the score computed from the older data.                   *)
C26_ScoreReflectsLatestValidated ==
    (request # <<>> /\ request.handler = "get_health_score"
        /\ response.status = 200)
        => \E r \in LastValidated :
              \E t \in 0..MaxTime :
                  response.body = HealthScoreFields(Assessment(r.data, industry, t))

\* C26 for the requests that computed the score they returned
C26_ComputedFromLatestValidated ==
    (request # <<>> /\ request.handler = "get_health_score"
        /\ response.status = 200 /\ response.computed)
        => \E r \in LastValidated :
              \E t \in 0..MaxTime :
                  response.body = HealthScoreFields(Assessment(r.data, industry, t))

\* the rows of the table approved so far
Approved(rows) == {r \in BagToSet(rows) : r.is_validated}

\* the rows of which the step added a copy
AddedRows ==
    {r \in BagToSet(financial_data') :
        CopiesIn(r, financial_data') > CopiesIn(r, financial_data)}

(* C27: in any sequence of upload, validate/reject and score requests a    *)
(* health score is only ever computed from a FinancialData record that was *)
(* approved (is_validated true at computation time): every upload starts   *)
(* unvalidated, only an approving validate request by the owner of the     *)
(* record's company makes a record validated, a rejecting request deletes  *)
(* the record, and data that is unvalidated or rejected never contributes  *)
(* to a computed or stored score; with no validated data and no stored     *)
(* score the request fails with 404 and stores nothing.                    *)
C27_OnlyApprovedDataIsScored ==
    [][/\ request'.handler = "upload_file"
            => /\ BagCardinality(financial_data') = BagCardinality(financial_data) + 1
               /\ Cardinality(AddedRows) = 1
               /\ \A r \in AddedRows : ~r.is_validated /\ r.validated_at = NotValidated
       /\ (\E r \in AddedRows : r.is_validated)
            => /\ request'.handler = "validate_data"
               /\ request'.owned
               /\ response'.detail = "Data validated successfully"
               /\ \E row \in BagToSet(financial_data) :
                     financial_data' =
                        (financial_data (-) SetToBag({row}))
                        (+) SetToBag({[row EXCEPT !.is_validated = TRUE,
                                                  !.validated_at = now]})
       /\ (request'.handler = "validate_data" /\ ~request'.owned)
            => /\ financial_data' = financial_data
               /\ response'.status \in {403, 404}
       /\ (request'.handler = "validate_data"
                /\ response'.detail = "Data rejected and removed")
            => /\ request'.owned
               /\ \E row \in BagToSet(financial_data) :
                     financial_data' = financial_data (-) SetToBag({row})
       /\ request'.handler # "validate_data"
            => Approved(financial_data') = Approved(financial_data)
       /\ (request'.handler = "get_health_score" /\ response'.computed)
            => /\ Approved(financial_data) # {}
               /\ financial_data' = financial_data
       /\ health_scores' # health_scores
            => /\ request'.handler = "get_health_score"
               /\ response'.computed
               /\ \E r \in Approved(financial_data) :
                     health_scores' =
                        Append(health_scores,
                               [calculated_at |-> now,
                                body |-> HealthScoreFields(
                                    Assessment(r.data, industry, now))])
       /\ (request'.handler = "get_health_score"
                /\ Approved(financial_data) = {} /\ health_scores = <<>>)
            => /\ response'.status = 404
               /\ health_scores' = health_scores]_vars

\* a score is stored that was computed from the validated record while a
\* record with other figures, uploaded and not validated, is in the table;
\* a validate request of another user was refused
C27_Witness ==
    /\ Len(health_scores) = 1
    /\ Cardinality(Approved(financial_data)) = 1
    /\ \E r \in Approved(financial_data), u \in BagToSet(financial_data) :
          /\ ~u.is_validated
          /\ ~ParsedEmpty(u.data)
          /\ u.data # r.data
          /\ \E t \in 0..MaxTime :
                health_scores[1].body = HealthScoreFields(Assessment(r.data, industry, t))
          /\ \A t \in 0..MaxTime :
                health_scores[1].body # HealthScoreFields(Assessment(u.data, industry, t))
    /\ request.handler = "validate_data"
    /\ response.status = 403

\* a reported score, in tenths of a point, in the unit of the overall score
Tenths(n) == n * 1000000

\* the risk level whose range of scores is that of the tier of the summary
RiskOfTier(tier) ==
    CASE tier = "strong"     -> "Low"
      [] tier = "moderate"   -> "Medium"
      [] tier = "challenges" -> "High"
      [] tier = "critical"   -> "Critical"

(* C24: every ScoreResult is internally consistent: its grade and          *)
(* risk_level are those the threshold mappings assign to the overall_score *)
(* reported in the same result (the score rounded to one decimal), and the *)
(* tier of the summary text (strong from 75, moderate from 55, challenges  *)
(* from 35, critical otherwise) agrees with the reported risk_level (Low,  *)
(* Medium, High, Critical).                                                *)
C24_ResultConsistent ==
    pc = "scored" =>
        /\ result.grade = calculate_grade(Tenths(result.overall_score))
        /\ result.risk_level = calculate_risk_level(Tenths(result.overall_score))
        /\ result.risk_level = RiskOfTier(ai_summary)

=============================================================================
